---- MODULE Spec2Model ----
(***************************************************************************)
(* Guide-generation orchestrator of the game progression tracker           *)
(* (src/src/ai.py, class AIManager).                                       *)
(*                                                                         *)
(* One run of AIManager.call_ai_api is modelled.  Every action is one HTTP *)
(* request (requests.post) together with all the code that runs after it   *)
(* up to the next request or to the end of the run: the retry loop of      *)
(* _call_gemini_api, the parsing of the response, and the continuation in  *)
(* the caller (_refine_context_gemini, the model loop of call_ai_api,      *)
(* _evaluate_gemini_guides).  The outcome of each request is an input.     *)
(*                                                                         *)
(* A candidate ("guide" dict) is modelled by its text and, as a history    *)
(* field, the model that generated it; its cited sources play no part in   *)
(* the control flow of call_ai_api and are not carried.                    *)
(***************************************************************************)
EXTENDS Integers, Sequences, FiniteSets, TLC

\* ------------------------------------------------------------------ bounds
\* number of entries of AIManager.gemini_models that are modelled
MaxModels == 3
\* largest number of candidates in one HTTP response body
MaxCands == 2

\* ------------------------------------------------------- program constants
attempts_per_model == 3
max_retries == 3
backoff_seconds == 2
default_fallback == "No reliable hint could be confirmed from the available guides."

\* model ids in priority order, named by their position in the list
gemini_models == [i \in 1..MaxModels |-> i]

\* None / absent text
NoText == ""

\* ------------------------------------------------------------------ inputs
Providers == {"Gemini", "ChatGPT", "Claude", "Copilot"}

\* response texts as sent by a backend, before str.strip()
RawTexts == {"  ", " Talk to the elder. ", default_fallback}

\* str.strip() on the texts above
strip(t) ==
    CASE t = "  " -> ""
      [] t = " Talk to the elder. " -> "Talk to the elder."
      [] t = " 42 " -> "42"
      [] t = " The player is at the gate. " -> "The player is at the gate."
      [] OTHER -> t

\* texts an evaluator backend answers with
EvalTexts == {"", "I think option 2 looks right", "{\"recommended_index\": 2}", " 42 "}

Statuses == {200, 404, 429, 500, 502, 503}

RECURSIVE SeqsUpTo(_, _)
SeqsUpTo(S, n) ==
    IF n = 0 THEN {<<>>}
    ELSE LET shorter == SeqsUpTo(S, n - 1)
         IN shorter \cup {Append(s, x) : s \in {q \in shorter : Len(q) = n - 1}, x \in S}

\* what one requests.post can end in: a requests.RequestException
\* ("neterr"), a response with a status code and a JSON body holding a list
\* of candidate texts ("http"), or a 200 response whose body does not have
\* the expected JSON shape ("badjson")
OutcomesOver(texts) ==
    {[kind |-> "neterr", status |-> 0, body |-> <<>>]}
    \cup {[kind |-> "http", status |-> s, body |-> <<>>] : s \in Statuses \ {200}}
    \cup {[kind |-> "http", status |-> 200, body |-> b] : b \in SeqsUpTo(texts, MaxCands)}
    \cup {[kind |-> "badjson", status |-> 200, body |-> <<>>]}

GenOutcomes == OutcomesOver(RawTexts)
EvalOutcomes == OutcomesOver(EvalTexts)

\* ------------------------------------------------------------------ errors
NoErr == [kind |-> "none", status |-> 0, model |-> 0]
NetworkErr(m) == [kind |-> "network", status |-> 0, model |-> m]
StatusErr(s, m) == [kind |-> "status", status |-> s, model |-> m]
ParseErr(m) == [kind |-> "parse", status |-> 200, model |-> m]
AllFailedErr == [kind |-> "all_failed", status |-> 0, model |-> 0]
ValidationErr == [kind |-> "validation", status |-> 0, model |-> 0]

\* -------------------------------------------------------- _call_gemini_api
\* variant: 404 is retried like a transient status
RetryStatuses_With404 == {404, 429, 500, 502, 503}

\* statuses the retry loop retries (line 344)
RetryStatuses == {429, 500, 502, 503}

\* variant: lines 391-395 are missing, an answer without a usable text
\* gives an empty list whatever fallback_text is
ParseCandidates_NoSubstitute(body, model_name, fallback_text) ==
    LET kept == SelectSeq(body, LAMBDA t : strip(t) # NoText)
    IN [i \in 1..Len(kept) |-> [text |-> strip(kept[i]), model |-> model_name]]

\* the candidates parsed from a 200 body: texts stripped, empty ones
\* dropped, the fallback text substituted when nothing is left
ParseCandidates(body, model_name, fallback_text) ==
    LET kept == SelectSeq(body, LAMBDA t : strip(t) # NoText)
        parsed == [i \in 1..Len(kept) |-> [text |-> strip(kept[i]), model |-> model_name]]
    IN IF parsed = <<>> /\ fallback_text # NoText
       THEN <<[text |-> fallback_text, model |-> model_name]>>
       ELSE parsed

\* variant: the delay does not grow with the attempt number
backoff_delay_Flat(att) == backoff_seconds

\* lines 337 and 347: the argument of time.sleep, attempt counting from 0
backoff_delay(att) == backoff_seconds * (att + 1)

\* variant: the retry conditions compare with max_retries instead of
\* max_retries - 1, so that a fourth request is sent
call_gemini_api_ExtraRetry(att, o, model_name, fallback_text) ==
    IF o.kind = "neterr"
    THEN IF att < max_retries
         THEN [tag |-> "retry", delay |-> backoff_delay(att), guides |-> <<>>, err |-> NoErr]
         ELSE [tag |-> "raise", delay |-> 0, guides |-> <<>>, err |-> NetworkErr(model_name)]
    ELSE IF o.status = 200
    THEN IF o.kind = "badjson"
         THEN [tag |-> "raise", delay |-> 0, guides |-> <<>>, err |-> ParseErr(model_name)]
         ELSE [tag |-> "return", delay |-> 0,
               guides |-> ParseCandidates(o.body, model_name, fallback_text), err |-> NoErr]
    ELSE IF o.status \in RetryStatuses /\ att < max_retries
    THEN [tag |-> "retry", delay |-> backoff_delay(att), guides |-> <<>>, err |-> NoErr]
    ELSE [tag |-> "raise", delay |-> 0, guides |-> <<>>, err |-> StatusErr(o.status, model_name)]

\* one iteration of the retry loop with loop variable att (0-based) and the
\* request ending in o: the loop continues after a delay ("retry"), the
\* call raises ("raise") or the call returns the parsed candidates
\* ("return")
call_gemini_api(att, o, model_name, fallback_text) ==
    IF o.kind = "neterr"
    THEN IF att < max_retries - 1
         THEN [tag |-> "retry", delay |-> backoff_delay(att), guides |-> <<>>, err |-> NoErr]
         ELSE [tag |-> "raise", delay |-> 0, guides |-> <<>>, err |-> NetworkErr(model_name)]
    ELSE IF o.status = 200
    THEN IF o.kind = "badjson"
         THEN [tag |-> "raise", delay |-> 0, guides |-> <<>>, err |-> ParseErr(model_name)]
         ELSE [tag |-> "return", delay |-> 0,
               guides |-> ParseCandidates(o.body, model_name, fallback_text), err |-> NoErr]
    ELSE IF o.status \in RetryStatuses /\ att < max_retries - 1
    THEN [tag |-> "retry", delay |-> backoff_delay(att), guides |-> <<>>, err |-> NoErr]
    ELSE [tag |-> "raise", delay |-> 0, guides |-> <<>>, err |-> StatusErr(o.status, model_name)]

\* ------------------------------------------------- _refine_context_gemini
\* variant: the loop of lines 294-297 does not return at the first text, the
\* last non-empty candidate text is returned
FirstText_Last(results) ==
    LET nonempty == SelectSeq(results, LAMBDA c : strip(c.text) # NoText)
    IN IF nonempty = <<>> THEN NoText ELSE strip(nonempty[Len(nonempty)].text)

\* first non-empty candidate text of the results, else the empty string
FirstText(results) ==
    LET nonempty == SelectSeq(results, LAMBDA c : strip(c.text) # NoText)
    IN IF nonempty = <<>> THEN NoText ELSE strip(nonempty[1].text)

\* ------------------------------------------------ _evaluate_gemini_guides
NoEvaluation == [shape |-> "empty", recommended_index |-> 0, confidence |-> 0, reasoning |-> ""]

\* json.loads of the evaluator's text, or the degraded record when the text
\* is not JSON
ParseEvaluation(raw_text) ==
    CASE raw_text = "{\"recommended_index\": 2}" ->
            [shape |-> "object", recommended_index |-> 2, confidence |-> 0, reasoning |-> ""]
      [] raw_text = "42" ->
            [shape |-> "number", recommended_index |-> 0, confidence |-> 0, reasoning |-> ""]
      [] OTHER ->
            [shape |-> "degraded", recommended_index |-> 0, confidence |-> 0, reasoning |-> raw_text]

EvaluationOf(evaluation_results) ==
    IF evaluation_results = <<>> THEN NoEvaluation
    ELSE LET raw_text == strip(evaluation_results[1].text)
         IN IF raw_text = NoText THEN NoEvaluation ELSE ParseEvaluation(raw_text)

\* --------------------------------------------------------- model loop body
\* variant: the test of line 167 is missing, the fallback sentence is kept
\* like any other text
is_fallback_Never(text) == FALSE

\* line 167: the text is the designated fallback sentence
is_fallback(text) == text = default_fallback

\* lines 163-175: the candidates of one batch are sorted into model_guides
\* and fallback_guide, up to the break of line 175
RECURSIVE CollectBatch(_, _, _)
CollectBatch(batch, mg, fb) ==
    IF batch = <<>> THEN [mg |-> mg, fb |-> fb]
    ELSE LET guide == Head(batch)
             text == strip(guide.text)
         IN IF text = NoText THEN CollectBatch(Tail(batch), mg, fb)
            ELSE IF is_fallback(text)
            THEN CollectBatch(Tail(batch), mg, IF fb = <<>> THEN <<guide>> ELSE fb)
            ELSE IF Len(mg) + 1 >= attempts_per_model
            THEN [mg |-> Append(mg, guide), fb |-> fb]
            ELSE CollectBatch(Tail(batch), Append(mg, guide), fb)

\* model_guides[:attempts_per_model]
Truncate(s, n) == IF Len(s) <= n THEN s ELSE SubSeq(s, 1, n)

\* ------------------------------------------------------------------- state
VARIABLES
    provider,         \* argument of call_ai_api
    status_callback,  \* argument of call_ai_api: TRUE for a callable, FALSE for None
    pc,               \* where the run is: "start", the stage whose next HTTP
                      \* request is due, "done" (returned) or "raised"
    refined_context,
    modelIdx,         \* position of model_name in gemini_models (0 before the loop)
    seqAttempt,       \* loop variable attempt of call_ai_api
    model_guides,
    fallback_guide,   \* <<>> for None, else <<guide>>
    last_error,
    guides,
    active_model,     \* 0 for None
    evaluation,
    attempt,          \* loop variable attempt of _call_gemini_api
    backoffs,         \* delays slept inside the transport call in progress
    pauses,           \* sleeps of delay_seconds taken for the current model
    modelCalls,       \* history: transport calls of the model loop that ended
                      \* for the current model
    lastRequest,      \* history: stage, model and outcome of the last HTTP request
                      \* (the body only for the non-grounded providers and for
                      \* the refinement stage)
    callResult,       \* history: how the last finished transport call ended
    emitted,          \* kinds of the messages the last step handed to status_callback
    tried,            \* history: models a generation request was sent to
    everProduced,     \* history: some generation call returned a non-empty candidate
    error             \* the exception call_ai_api raised, NoErr if none

\* one call of _call_gemini_api on its own, with its full history
VARIABLES
    tModel,           \* argument model_name
    tFallback,        \* argument fallback_text (NoText for None)
    tAtt,             \* loop variable attempt of _call_gemini_api
    tLog,             \* history: the outcomes of the requests sent, in order
    tDelays,          \* history: the delays slept, in order
    tOut              \* how the call ended: tag "none" while it is in progress

\* the application window (GameTrackerApp) and its background worker
VARIABLES
    games,               \* title -> [situation, guide], the stored records
    current_game,        \* NoGame for None
    is_edit_mode,
    situation_input,     \* text of the situation editor
    guide_output,        \* text of the guide editor
    guide_read_only,     \* guide_output.isReadOnly()
    guide_button_enabled,
    current_worker,      \* the worker of the run in progress and its parameters
    game_now,            \* history: the title the game of the run in progress
                         \* has now (NoGame once it is deleted, or without a run)
    shown,               \* history: title of the message box the last handler showed
    sentFor,             \* history: the situations HTTP requests were sent for
    outstanding          \* history: workers started whose finished signal was
                         \* not handled yet

\* the parsing of an evaluator's answer (_evaluate_gemini_guides) on its own
VARIABLES
    evText,              \* text of the first candidate the evaluation call returned
    evOut                \* what _evaluate_gemini_guides did with it

\* the report formatter (_format_guide_output) on its own
VARIABLES
    fGuides,             \* argument guides
    fProvider,           \* argument provider
    fEvaluation,         \* argument evaluation
    fModelName,          \* argument model_name
    fRefinedContext,     \* argument refined_context
    fOut,                \* what the call produced
    fAgain               \* what a second call with the same arguments produced

\* a second run of call_ai_api on the same request and the same responses,
\* without the status callback
VARIABLES
    twin              \* which of the two runs is stepping, the outcome of the
                      \* request both get, and what the first run did

\* the worker object that runs call_ai_api in its thread
\* (GuideGenerationWorker.run)
VARIABLES
    finished          \* the records handed to finished.emit so far, in order

\* the settings file and its API keys (DataManager)
VARIABLES
    settings_file,    \* settings.json: field name -> stored value
    saved,            \* history: provider -> the key last saved for it
    loaded            \* history: the last load_api_key call and what it returned

keyVars == <<settings_file, saved, loaded>>

orchVars == <<provider, status_callback, pc, refined_context, modelIdx, seqAttempt, model_guides,
              fallback_guide, last_error, guides, active_model, evaluation,
              attempt, backoffs, pauses, modelCalls, lastRequest, callResult, emitted, tried,
              everProduced, error>>
transportVars == <<tModel, tFallback, tAtt, tLog, tDelays, tOut>>

appVars == <<games, current_game, is_edit_mode, situation_input, guide_output,
             guide_read_only, guide_button_enabled, current_worker, shown, sentFor,
             outstanding, game_now>>

evalVars == <<evText, evOut>>

formatArgs == <<fGuides, fProvider, fEvaluation, fModelName, fRefinedContext>>

formatVars == <<formatArgs, fOut, fAgain>>

vars == <<orchVars, twin, finished, keyVars, transportVars, appVars, evalVars, formatVars>>

\* the variables call_ai_api does not touch
notOrchVars == <<twin, finished, keyVars, transportVars, appVars, evalVars, formatVars>>

NoRequest == [stage |-> "none", model |-> 0, kind |-> "none", status |-> 0, body |-> <<>>]
NoCall == [stage |-> "none", model |-> 0, tag |-> "none", err |-> NoErr, got |-> "nothing"]
NoGame == ""
NewGame == [situation |-> NoText, guide |-> NoText]
NoWorker == [status |-> "none", game_title |-> NoGame, situation |-> NoText, result |-> "none"]

\* no window exists
AppIdle ==
    /\ games = [t \in {} |-> NewGame]
    /\ current_game = NoGame
    /\ is_edit_mode = FALSE
    /\ situation_input = NoText
    /\ guide_output = NoText
    /\ guide_read_only = FALSE
    /\ guide_button_enabled = TRUE
    /\ current_worker = NoWorker
    /\ shown = ""
    /\ sentFor = {}
    /\ outstanding = 0
    /\ game_now = NoGame

NotEvaluated == [kind |-> "none", recommended_index |-> 0, confidence |-> 0,
                 reasoning |-> <<>>, value |-> "none"]

\* no evaluator answer is looked at on its own
EvalIdle ==
    /\ evText = <<>>
    /\ evOut = NotEvaluated

\* a Python value of an evaluation's field: its type, its number in tenths
\* and its text
Absent == [type |-> "absent", num |-> 0, text |-> ""]
NoDisplay == [kind |-> "empty", tenths |-> 0, text |-> ""]
NotFormatted == [kind |-> "none", exc |-> "none", provider_line |-> <<>>,
                 context_block |-> "", entries |-> <<>>, total |-> 0,
                 recommended_agg_index |-> 0, recommended_line |-> <<>>, why |-> ""]
NoEval == [given |-> FALSE, recommended_index |-> Absent, confidence |-> Absent,
           reasoning |-> ""]

\* no report is formatted on its own
FormatIdle ==
    /\ fGuides = <<>>
    /\ fProvider = "Gemini"
    /\ fEvaluation = NoEval
    /\ fModelName = NoText
    /\ fRefinedContext = NoText
    /\ fOut = NotFormatted
    /\ fAgain = NotFormatted

NoOutcome == [tag |-> "none", guides |-> <<>>, err |-> NoErr]

\* no transport call is looked at on its own
TransportIdle ==
    /\ tModel = 0
    /\ tFallback = NoText
    /\ tAtt = 0
    /\ tLog = <<>>
    /\ tDelays = <<>>
    /\ tOut = NoOutcome

NoStep == [kind |-> "none", status |-> 0, body |-> <<>>]

\* no second run is made
NoTwin == [phase |-> "off", o |-> NoStep, saved |-> <<>>, expect |-> <<>>, said |-> {}]

\* call_ai_api has not been called
OrchIdle ==
    /\ twin = NoTwin
    /\ finished = <<>>
    /\ provider = "Gemini"
    /\ status_callback = TRUE
    /\ pc = "idle"
    /\ refined_context = NoText
    /\ modelIdx = 0
    /\ seqAttempt = 0
    /\ model_guides = <<>>
    /\ fallback_guide = <<>>
    /\ last_error = NoErr
    /\ guides = <<>>
    /\ active_model = 0
    /\ evaluation = NoEvaluation
    /\ attempt = 0
    /\ backoffs = <<>>
    /\ pauses = 0
    /\ modelCalls = 0
    /\ lastRequest = NoRequest
    /\ callResult = NoCall
    /\ emitted = {}
    /\ tried = {}
    /\ everProduced = FALSE
    /\ error = NoErr

\* the items of ai_provider_combo (app.py line 105)
KeyProviders == {"Gemini", "ChatGPT", "Claude", "Other"}

\* f"{provider.lower()}_api_key" (data.py lines 100 and 110)
key_field(provider_) ==
    CASE provider_ = "Gemini" -> "gemini_api_key"
      [] provider_ = "ChatGPT" -> "chatgpt_api_key"
      [] provider_ = "Claude" -> "claude_api_key"
      [] OTHER -> "other_api_key"

\* the fields of settings.json that hold keys
KeyFields == {key_field(p) : p \in KeyProviders} \cup {"api_key"}

\* a field the file does not have (settings.get gives None), and the empty
\* string stored in a field
NoField == [kind |-> "missing", plain |-> ""]
EmptyField == [kind |-> "empty", plain |-> ""]

\* load_settings on a machine without settings.json (data.py line 87): the
\* legacy field is there and empty, the provider fields are not
DefaultSettings == [f \in KeyFields |-> IF f = "api_key" THEN EmptyField ELSE NoField]

NotLoaded == [provider |-> "none", key |-> ""]

KeysIdle ==
    /\ settings_file = DefaultSettings
    /\ saved = [p \in KeyProviders |-> ""]
    /\ loaded = NotLoaded

\* what the candidates a transport call returned consist of
Got(results) ==
    IF results = <<>> THEN "nothing"
    ELSE IF \A i \in 1..Len(results) : results[i].text = default_fallback THEN "fallback_only"
    ELSE "usable"

\* call_ai_api is entered; the worker passes status_update.emit as
\* status_callback (workers.py line 37)
InitRun ==
    /\ provider \in Providers
    /\ status_callback = TRUE
    /\ pc = "start"
    /\ refined_context = NoText
    /\ modelIdx = 0
    /\ seqAttempt = 0
    /\ model_guides = <<>>
    /\ fallback_guide = <<>>
    /\ last_error = NoErr
    /\ guides = <<>>
    /\ active_model = 0
    /\ evaluation = NoEvaluation
    /\ attempt = 0
    /\ backoffs = <<>>
    /\ pauses = 0
    /\ modelCalls = 0
    /\ lastRequest = NoRequest
    /\ callResult = NoCall
    /\ emitted = {}
    /\ tried = {}
    /\ everProduced = FALSE
    /\ error = NoErr
    /\ finished = <<>>
    /\ KeysIdle
    /\ TransportIdle
    /\ AppIdle
    /\ EvalIdle
    /\ FormatIdle

Init == InitRun /\ twin = NoTwin

\* lines 44-46: log hands the messages to status_callback if there is one
log(messages) == IF status_callback THEN messages ELSE {}

seqVars == <<modelIdx, seqAttempt, model_guides, fallback_guide, last_error, pauses,
             modelCalls>>
outVars == <<guides, active_model, evaluation>>

\* history of the request just sent
Sent(stage, model_name, o) ==
    /\ lastRequest' = [stage |-> stage, model |-> model_name, kind |-> o.kind,
                       status |-> o.status,
                       body |-> IF stage \in {"openai", "claude", "refine"} THEN o.body ELSE <<>>]
    /\ tried' = IF stage = "generate" THEN tried \cup {model_name} ELSE tried

\* history of the transport call that just ended
Ended(stage, model_name, r) ==
    /\ callResult' = [stage |-> stage, model |-> model_name, tag |-> r.tag, err |-> r.err,
                      got |-> Got(r.guides)]
    /\ attempt' = 0
    /\ backoffs' = <<>>
    /\ everProduced' = (everProduced \/ (stage = "generate" /\ r.guides # <<>>))

\* variant: the retry loop is a while loop that does not advance attempt
Retry_SameAttempt(r) ==
    /\ attempt' = attempt
    /\ backoffs' = Append(backoffs, r.delay)
    /\ emitted' = log({"sending", "retrying"})
    /\ UNCHANGED <<provider, status_callback, pc, refined_context, seqVars, outVars, callResult, everProduced,
                   error>>

\* variant: time.sleep is called in the 'if status_callback:' block
Retry_SleepIfLogged(r) ==
    /\ attempt' = attempt + 1
    /\ backoffs' = IF status_callback THEN Append(backoffs, r.delay) ELSE backoffs
    /\ emitted' = log({"sending", "retrying"})
    /\ UNCHANGED <<provider, status_callback, pc, refined_context, seqVars, outVars,
                   callResult, everProduced, error>>

\* lines 334-338 and 344-348: sleep, then the next iteration of the retry loop
Retry(r) ==
    /\ attempt' = attempt + 1
    /\ backoffs' = Append(backoffs, r.delay)
    /\ emitted' = log({"sending", "retrying"})
    /\ UNCHANGED <<provider, status_callback, pc, refined_context, seqVars, outVars, callResult, everProduced,
                   error>>

\* variant: the provider test of line 49 is missing, context refinement is
\* attempted for a provider that has no branch of its own
Start_RefineAlways ==
    /\ pc = "start"
    /\ pc' = CASE provider = "Gemini" -> "refine"
               [] provider = "ChatGPT" -> "openai"
               [] provider = "Claude" -> "claude"
               [] OTHER -> "refine"
    /\ error' = NoErr
    /\ emitted' = log(CASE provider = "ChatGPT" -> {"sending_chatgpt"}
                          [] provider = "Claude" -> {"sending_claude"}
                          [] OTHER -> {"refining"})
    /\ UNCHANGED <<provider, status_callback, refined_context, seqVars, outVars, attempt, backoffs,
                   lastRequest, callResult, tried, everProduced>>
    /\ UNCHANGED notOrchVars

\* call_ai_api up to the first HTTP request (lines 31-58, 140-145, 220-237)
Start ==
    /\ pc = "start"
    /\ pc' = CASE provider = "Gemini" -> "refine"
               [] provider = "ChatGPT" -> "openai"
               [] provider = "Claude" -> "claude"
               [] OTHER -> "raised"
    /\ error' = IF provider \in {"Gemini", "ChatGPT", "Claude"} THEN NoErr ELSE ValidationErr
    /\ emitted' = log(CASE provider = "Gemini" -> {"refining"}
                          [] provider = "ChatGPT" -> {"sending_chatgpt"}
                          [] provider = "Claude" -> {"sending_claude"}
                          [] OTHER -> {})
    /\ UNCHANGED <<provider, status_callback, refined_context, seqVars, outVars, attempt, backoffs,
                   lastRequest, callResult, tried, everProduced>>
    /\ UNCHANGED notOrchVars

\* lines 140-149: the model loop is entered with the first model
EnterSequencer(msgs) ==
    /\ pc' = "generate"
    /\ modelIdx' = 1
    /\ seqAttempt' = 0
    /\ model_guides' = <<>>
    /\ fallback_guide' = <<>>
    /\ last_error' = NoErr
    /\ pauses' = 0
    /\ modelCalls' = 0
    /\ emitted' = log(msgs \cup {"starting", "trying"})
    /\ UNCHANGED <<provider, status_callback, outVars, error>>

\* variant: the try/except of lines 279-291 is missing, an exception of the
\* refinement call leaves call_ai_api
RefineRequest_Propagates(o) ==
    /\ pc = "refine"
    /\ UNCHANGED notOrchVars
    /\ LET model_name == gemini_models[1]
           r == call_gemini_api(attempt, o, model_name, NoText)
       IN /\ Sent("refine", model_name, o)
          /\ CASE r.tag = "retry" ->
                    Retry(r)
               [] r.tag = "raise" ->
                    /\ Ended("refine", model_name, r)
                    /\ pc' = "raised"
                    /\ error' = r.err
                    /\ emitted' = log({"sending"})
                    /\ UNCHANGED <<provider, status_callback, refined_context, seqVars, outVars>>
               [] OTHER ->
                    /\ Ended("refine", model_name, r)
                    /\ refined_context' = FirstText(r.guides)
                    /\ EnterSequencer({"sending"})

\* one HTTP request of _refine_context_gemini (lines 279-298) and, when the
\* call ends, the return into call_ai_api
RefineRequest(o) ==
    /\ pc = "refine"
    /\ UNCHANGED notOrchVars
    /\ LET model_name == gemini_models[1]
           r == call_gemini_api(attempt, o, model_name, NoText)
       IN /\ Sent("refine", model_name, o)
          /\ CASE r.tag = "retry" ->
                    Retry(r)
               [] r.tag = "raise" ->
                    /\ Ended("refine", model_name, r)
                    /\ refined_context' = NoText
                    /\ EnterSequencer({"sending", "refine_skipped"})
               [] OTHER ->
                    /\ Ended("refine", model_name, r)
                    /\ refined_context' = FirstText(r.guides)
                    /\ EnterSequencer({"sending"})

\* variant: the check of line 217 is missing, the run returns whatever
\* guides holds
LeaveLoop_NoCheck(g, le) ==
    /\ pc' = "done"
    /\ error' = NoErr

\* line 217-218 and 239-245 after the model loop
LeaveLoop(g, le) ==
    IF g = <<>>
    THEN /\ pc' = "raised"
         /\ error' = IF le # NoErr THEN le ELSE AllFailedErr
    ELSE /\ pc' = "done"
         /\ error' = NoErr

\* variant: last_error keeps the first exception instead of the last
NextModel_FirstError(le, msgs) ==
    LET kept == IF last_error # NoErr THEN last_error ELSE le
    IN /\ last_error' = kept
       /\ model_guides' = <<>>
       /\ fallback_guide' = <<>>
       /\ seqAttempt' = 0
       /\ pauses' = 0
       /\ modelCalls' = 0
       /\ UNCHANGED <<provider, status_callback, refined_context, outVars>>
       /\ IF modelIdx < Len(gemini_models)
          THEN /\ modelIdx' = modelIdx + 1
               /\ emitted' = log(msgs \cup {"trying"})
               /\ UNCHANGED <<pc, error>>
          ELSE /\ modelIdx' = modelIdx
               /\ emitted' = log(msgs)
               /\ LeaveLoop(guides, kept)

\* variant: model_guides and fallback_guide are initialised once before the
\* loop of line 147 instead of at lines 149-150, the next model inherits
\* what the last one collected
NextModel_KeepsGuides(le, msgs) ==
    /\ last_error' = le
    /\ seqAttempt' = 0
    /\ pauses' = 0
    /\ modelCalls' = 0
    /\ UNCHANGED <<provider, status_callback, refined_context, outVars, model_guides,
                   fallback_guide>>
    /\ IF modelIdx < Len(gemini_models)
       THEN /\ modelIdx' = modelIdx + 1
            /\ emitted' = log(msgs \cup {"trying"})
            /\ UNCHANGED <<pc, error>>
       ELSE /\ modelIdx' = modelIdx
            /\ emitted' = log(msgs)
            /\ LeaveLoop(guides, le)

\* the for statement of line 147 moves to the next model, or the loop ends
NextModel(le, msgs) ==
    /\ last_error' = le
    /\ model_guides' = <<>>
    /\ fallback_guide' = <<>>
    /\ seqAttempt' = 0
    /\ pauses' = 0
    /\ modelCalls' = 0
    /\ UNCHANGED <<provider, status_callback, refined_context, outVars>>
    /\ IF modelIdx < Len(gemini_models)
       THEN /\ modelIdx' = modelIdx + 1
            /\ emitted' = log(msgs \cup {"trying"})
            /\ UNCHANGED <<pc, error>>
       ELSE /\ modelIdx' = modelIdx
            /\ emitted' = log(msgs)
            /\ LeaveLoop(guides, le)

\* variant: the break of line 213 is missing, the loop goes on to the next
\* model after one was accepted
EndOfModel_NoBreak(mg, fb) ==
    LET final == IF mg = <<>> /\ fb # <<>> THEN Append(mg, fb[1]) ELSE mg
    IN IF final # <<>>
       THEN /\ guides' = Truncate(final, attempts_per_model)
            /\ active_model' = gemini_models[modelIdx]
            /\ emitted' = log({"sending", "succeeded", "evaluating"})
            /\ UNCHANGED <<provider, status_callback, refined_context, last_error, evaluation, error>>
            /\ IF modelIdx < Len(gemini_models)
               THEN /\ modelIdx' = modelIdx + 1
                    /\ model_guides' = <<>>
                    /\ fallback_guide' = <<>>
                    /\ seqAttempt' = 0
                    /\ pauses' = 0
                    /\ modelCalls' = 0
                    /\ pc' = "generate"
               ELSE /\ model_guides' = final
                    /\ fallback_guide' = fb
                    /\ modelCalls' = modelCalls + 1
                    /\ pc' = "evaluate"
                    /\ UNCHANGED <<modelIdx, seqAttempt, pauses>>
       ELSE NextModel(last_error, {"sending", "no_guidance"})

\* variant: lines 188-189 are missing, a model that only gave the fallback
\* sentence counts as having returned nothing
EndOfModel_NoFallback(mg, fb) ==
    LET final == mg
    IN IF final # <<>>
       THEN /\ guides' = Truncate(final, attempts_per_model)
            /\ active_model' = gemini_models[modelIdx]
            /\ model_guides' = final
            /\ fallback_guide' = fb
            /\ modelCalls' = modelCalls + 1
            /\ emitted' = log({"sending", "succeeded", "evaluating"})
            /\ pc' = "evaluate"
            /\ UNCHANGED <<provider, status_callback, refined_context, modelIdx, seqAttempt, last_error,
                           pauses, evaluation, error>>
       ELSE NextModel(last_error, {"sending", "no_guidance"})

\* lines 188-215: the inner loop is over for the current model
EndOfModel(mg, fb) ==
    LET final == IF mg = <<>> /\ fb # <<>> THEN Append(mg, fb[1]) ELSE mg
    IN IF final # <<>>
       THEN /\ guides' = Truncate(final, attempts_per_model)
            /\ active_model' = gemini_models[modelIdx]
            /\ model_guides' = final
            /\ fallback_guide' = fb
            /\ modelCalls' = modelCalls + 1
            /\ emitted' = log({"sending", "succeeded", "evaluating"})
            /\ pc' = "evaluate"
            /\ UNCHANGED <<provider, status_callback, refined_context, modelIdx, seqAttempt, last_error,
                           pauses, evaluation, error>>
       ELSE NextModel(last_error, {"sending", "no_guidance"})

\* variant: the inner loop of line 153 runs once more than
\* attempts_per_model times
GenerateRequest_ExtraAttempt(o) ==
    /\ pc = "generate"
    /\ UNCHANGED notOrchVars
    /\ LET model_name == gemini_models[modelIdx]
           r == call_gemini_api(attempt, o, model_name, default_fallback)
           c == CollectBatch(r.guides, model_guides, fallback_guide)
       IN /\ Sent("generate", model_name, o)
          /\ CASE r.tag = "retry" ->
                    Retry(r)
               [] r.tag = "raise" ->
                    /\ Ended("generate", model_name, r)
                    /\ NextModel(r.err, {"sending", "model_failed"})
               [] OTHER ->
                    /\ Ended("generate", model_name, r)
                    /\ IF Len(c.mg) >= attempts_per_model
                       THEN EndOfModel(c.mg, c.fb)
                       ELSE IF seqAttempt < attempts_per_model
                       THEN /\ seqAttempt' = seqAttempt + 1
                            /\ pauses' = pauses + 1
                            /\ modelCalls' = modelCalls + 1
                            /\ model_guides' = c.mg
                            /\ fallback_guide' = c.fb
                            /\ emitted' = log({"sending"})
                            /\ UNCHANGED <<provider, status_callback, pc, refined_context, modelIdx,
                                           last_error, outVars, error>>
                       ELSE EndOfModel(c.mg, c.fb)

\* one HTTP request of the model loop (lines 147-215)
GenerateRequest(o) ==
    /\ pc = "generate"
    /\ UNCHANGED notOrchVars
    /\ LET model_name == gemini_models[modelIdx]
           r == call_gemini_api(attempt, o, model_name, default_fallback)
           c == CollectBatch(r.guides, model_guides, fallback_guide)
       IN /\ Sent("generate", model_name, o)
          /\ CASE r.tag = "retry" ->
                    Retry(r)
               [] r.tag = "raise" ->
                    /\ Ended("generate", model_name, r)
                    /\ NextModel(r.err, {"sending", "model_failed"})
               [] OTHER ->
                    /\ Ended("generate", model_name, r)
                    /\ IF Len(c.mg) >= attempts_per_model
                       THEN EndOfModel(c.mg, c.fb)
                       ELSE IF seqAttempt < attempts_per_model - 1
                       THEN /\ seqAttempt' = seqAttempt + 1
                            /\ pauses' = pauses + 1
                            /\ modelCalls' = modelCalls + 1
                            /\ model_guides' = c.mg
                            /\ fallback_guide' = c.fb
                            /\ emitted' = log({"sending"})
                            /\ UNCHANGED <<provider, status_callback, pc, refined_context, modelIdx,
                                           last_error, outVars, error>>
                       ELSE EndOfModel(c.mg, c.fb)

\* variant: the evaluation is asked of the first model of the list instead
\* of the accepted one
EvaluateRequest_FirstModel(o) ==
    /\ pc = "evaluate"
    /\ UNCHANGED notOrchVars
    /\ LET model_name == gemini_models[1]
           r == call_gemini_api(attempt, o, model_name, NoText)
       IN /\ Sent("evaluate", model_name, o)
          /\ CASE r.tag = "retry" ->
                    Retry(r)
               [] r.tag = "raise" ->
                    /\ Ended("evaluate", model_name, r)
                    /\ evaluation' = NoEvaluation
                    /\ emitted' = log({"sending", "evaluation_failed"})
                    /\ LeaveLoop(guides, last_error)
                    /\ UNCHANGED <<provider, status_callback, refined_context, seqVars, guides, active_model>>
               [] OTHER ->
                    /\ Ended("evaluate", model_name, r)
                    /\ evaluation' = EvaluationOf(r.guides)
                    /\ emitted' = log({"sending"})
                    /\ LeaveLoop(guides, last_error)
                    /\ UNCHANGED <<provider, status_callback, refined_context, seqVars, guides, active_model>>

\* variant: the try/except of lines 198-211 is missing, an exception of the
\* evaluation call leaves call_ai_api
EvaluateRequest_Propagates(o) ==
    /\ pc = "evaluate"
    /\ UNCHANGED notOrchVars
    /\ LET model_name == gemini_models[modelIdx]
           r == call_gemini_api(attempt, o, model_name, NoText)
       IN /\ Sent("evaluate", model_name, o)
          /\ CASE r.tag = "retry" ->
                    Retry(r)
               [] r.tag = "raise" ->
                    /\ Ended("evaluate", model_name, r)
                    /\ pc' = "raised"
                    /\ error' = r.err
                    /\ emitted' = log({"sending"})
                    /\ UNCHANGED <<provider, status_callback, refined_context, seqVars, outVars>>
               [] OTHER ->
                    /\ Ended("evaluate", model_name, r)
                    /\ evaluation' = EvaluationOf(r.guides)
                    /\ emitted' = log({"sending"})
                    /\ LeaveLoop(guides, last_error)
                    /\ UNCHANGED <<provider, status_callback, refined_context, seqVars, guides, active_model>>

\* one HTTP request of _evaluate_gemini_guides (lines 438-478) and, when
\* the call ends, lines 209-218 and the return of call_ai_api
EvaluateRequest(o) ==
    /\ pc = "evaluate"
    /\ UNCHANGED notOrchVars
    /\ LET model_name == gemini_models[modelIdx]
           r == call_gemini_api(attempt, o, model_name, NoText)
       IN /\ Sent("evaluate", model_name, o)
          /\ CASE r.tag = "retry" ->
                    Retry(r)
               [] r.tag = "raise" ->
                    /\ Ended("evaluate", model_name, r)
                    /\ evaluation' = NoEvaluation
                    /\ emitted' = log({"sending", "evaluation_failed"})
                    /\ LeaveLoop(guides, last_error)
                    /\ UNCHANGED <<provider, status_callback, refined_context, seqVars, guides, active_model>>
               [] OTHER ->
                    /\ Ended("evaluate", model_name, r)
                    /\ evaluation' = EvaluationOf(r.guides)
                    /\ emitted' = log({"sending"})
                    /\ LeaveLoop(guides, last_error)
                    /\ UNCHANGED <<provider, status_callback, refined_context, seqVars, guides, active_model>>

\* _call_openai_api / _call_claude_api: the text of the single message, the
\* placeholder when the response has none
placeholder == "Could not generate a hint."
MessageText(body) == IF body = <<>> THEN placeholder ELSE body[1]

\* the single request of a non-grounded provider (lines 220-234, 480-542)
SingleRequest(stage, o, msg) ==
    /\ pc = stage
    /\ UNCHANGED notOrchVars
    /\ Sent(stage, 0, o)
    /\ UNCHANGED <<provider, status_callback, refined_context, seqVars, active_model, evaluation, backoffs,
                   attempt, everProduced>>
    /\ IF o.kind = "http" /\ o.status = 200
       THEN LET cleaned == strip(MessageText(o.body))
            IN /\ guides' = IF cleaned # NoText
                            THEN <<[text |-> cleaned, model |-> 0]>> ELSE <<>>
               /\ emitted' = log(IF cleaned # NoText THEN {msg} ELSE {})
               /\ callResult' = [stage |-> stage, model |-> 0, tag |-> "return", err |-> NoErr,
                                 got |-> IF cleaned # NoText THEN "usable" ELSE "nothing"]
               /\ pc' = "done"
               /\ error' = NoErr
       ELSE LET err == CASE o.kind = "neterr" -> NetworkErr(0)
                         [] o.kind = "badjson" -> ParseErr(0)
                         [] OTHER -> StatusErr(o.status, 0)
            IN /\ callResult' = [stage |-> stage, model |-> 0, tag |-> "raise", err |-> err,
                                 got |-> "nothing"]
               /\ pc' = "raised"
               /\ error' = err
               /\ guides' = guides
               /\ emitted' = log({})

OpenAIRequest(o) == SingleRequest("openai", o, "received_chatgpt")
ClaudeRequest(o) == SingleRequest("claude", o, "received_claude")

\* "model_used" of the returned dict (line 243)
model_used == IF provider = "Gemini" THEN active_model ELSE 0

Next ==
    \/ Start
    \/ \E o \in GenOutcomes : RefineRequest(o)
    \/ \E o \in GenOutcomes : GenerateRequest(o)
    \/ \E o \in EvalOutcomes : EvaluateRequest(o)
    \/ \E o \in GenOutcomes : OpenAIRequest(o)
    \/ \E o \in GenOutcomes : ClaudeRequest(o)

Spec == Init /\ [][Next]_vars

\* every HTTP request returns, fails or times out (requests.post is called
\* with a timeout), and every sleep ends: a run that can take a step takes it
SpecFair == Spec /\ WF_vars(Next)

\* ------------------------------------------- GuideGenerationWorker.run
\* str(exc) of the exception call_ai_api raised: the message it was built
\* with
str_exc(exc) ==
    CASE exc.kind = "network" -> "Failed to reach Gemini API: ..."
      [] exc.kind = "status" -> "API returned status ..."
      [] exc.kind = "parse" -> "Expecting value: line 1 column 1 (char 0)"
      [] exc.kind = "all_failed" -> "All Gemini models failed to provide guidance."
      [] exc.kind = "validation" ->
            "Please select a supported AI provider (Gemini, ChatGPT, or Claude)."
      [] OTHER -> ""

\* the dict call_ai_api returns (lines 239-245)
call_ai_api_result ==
    [guides |-> guides, provider |-> provider, evaluation |-> evaluation,
     model_used |-> model_used, refined_context |-> refined_context]

ResultRecord(result) == [kind |-> "result", result |-> result, error |-> ""]
ErrorRecord(message) == [kind |-> "error", result |-> <<>>, error |-> message]

\* variant: the error record is emitted in a finally clause instead of the
\* except clause, so also after the result
run_emits_InFinally(returned, result, exc) ==
    IF returned THEN <<ResultRecord(result), ErrorRecord(str_exc(exc))>>
    ELSE <<ErrorRecord(str_exc(exc))>>

\* workers.py lines 39-41: what run hands to finished.emit once call_ai_api
\* has returned result or raised exc
run_emits(returned, result, exc) ==
    IF returned THEN <<ResultRecord(result)>> ELSE <<ErrorRecord(str_exc(exc))>>

\* the end of run: call_ai_api has returned or raised and run has not gone
\* past its emit yet
WorkerEmit ==
    /\ pc \in {"done", "raised"}
    /\ finished = <<>>
    /\ finished' = finished \o run_emits(pc = "done", call_ai_api_result, error)
    /\ emitted' = {}
    /\ UNCHANGED <<provider, status_callback, pc, refined_context, seqVars, outVars, attempt,
                   backoffs, lastRequest, callResult, tried, everProduced, error>>
    /\ UNCHANGED <<twin, keyVars, transportVars, appVars, evalVars, formatVars>>

\* run (workers.py lines 27-41): the steps of call_ai_api, then the emit
NextWorker ==
    \/ Next
    \/ WorkerEmit

\* the worker thread keeps running until run returns
SpecWorker == Init /\ [][NextWorker]_vars /\ WF_vars(NextWorker)

\* ------------------------------------- two runs on the same responses
\* what call_ai_api did and holds, apart from the status messages: the
\* requests, the sleeps, the loop state and the result
View ==
    [provider |-> provider, pc |-> pc, refined_context |-> refined_context,
     modelIdx |-> modelIdx, seqAttempt |-> seqAttempt, model_guides |-> model_guides,
     fallback_guide |-> fallback_guide, last_error |-> last_error, guides |-> guides,
     active_model |-> active_model, evaluation |-> evaluation, attempt |-> attempt,
     backoffs |-> backoffs, pauses |-> pauses, modelCalls |-> modelCalls,
     lastRequest |-> lastRequest, callResult |-> callResult, tried |-> tried,
     everProduced |-> everProduced, error |-> error]

\* the responses the two runs are compared on: at most one candidate each
TwinOutcomes == {o \in GenOutcomes \cup EvalOutcomes : Len(o.body) <= 1}

InitTwin ==
    /\ InitRun
    /\ twin = [NoTwin EXCEPT !.phase = "choose"]

\* the step of call_ai_api in which the request that is due ends in o (the
\* step up to the first request for NoStep)
StepWith(o) ==
    \/ o = NoStep /\ Start
    \/ o \in GenOutcomes /\ RefineRequest(o)
    \/ o \in GenOutcomes /\ GenerateRequest(o)
    \/ o \in EvalOutcomes /\ EvaluateRequest(o)
    \/ o \in GenOutcomes /\ OpenAIRequest(o)
    \/ o \in GenOutcomes /\ ClaudeRequest(o)

\* the outcome of the next request is fixed for both runs
Choose(o) ==
    /\ twin.phase = "choose"
    /\ pc \notin {"done", "raised"}
    /\ CASE pc = "start" -> o = NoStep
         [] pc = "evaluate" -> o \in EvalOutcomes
         [] OTHER -> o \in GenOutcomes
    /\ twin' = [phase |-> "first", o |-> o, saved |-> <<View>>, expect |-> <<>>,
                said |-> {}]
    /\ UNCHANGED <<orchVars, finished, keyVars, transportVars, appVars, evalVars, formatVars>>

\* the run that is stepping makes its step
TwinStep ==
    /\ twin.phase \in {"first", "second"}
    /\ twin.saved = <<View>>
    /\ StepWith(twin.o)

\* the run with the callback has stepped: the run without it starts from
\* where that step started
Rewind ==
    /\ twin.phase = "first"
    /\ twin.saved # <<View>>
    /\ twin' = [twin EXCEPT !.phase = "second", !.expect = <<View>>, !.said = emitted]
    /\ status_callback' = FALSE
    /\ emitted' = {}
    /\ LET v == twin.saved[1]
       IN /\ provider' = v.provider
          /\ pc' = v.pc
          /\ refined_context' = v.refined_context
          /\ modelIdx' = v.modelIdx
          /\ seqAttempt' = v.seqAttempt
          /\ model_guides' = v.model_guides
          /\ fallback_guide' = v.fallback_guide
          /\ last_error' = v.last_error
          /\ guides' = v.guides
          /\ active_model' = v.active_model
          /\ evaluation' = v.evaluation
          /\ attempt' = v.attempt
          /\ backoffs' = v.backoffs
          /\ pauses' = v.pauses
          /\ modelCalls' = v.modelCalls
          /\ lastRequest' = v.lastRequest
          /\ callResult' = v.callResult
          /\ tried' = v.tried
          /\ everProduced' = v.everProduced
          /\ error' = v.error
    /\ UNCHANGED <<finished, keyVars, transportVars, appVars, evalVars, formatVars>>

\* the run without the callback has stepped too: both go on from there
Continue ==
    /\ twin.phase = "second"
    /\ twin.saved # <<View>>
    /\ twin' = [NoTwin EXCEPT !.phase = "choose"]
    /\ status_callback' = TRUE
    /\ emitted' = twin.said
    /\ UNCHANGED <<provider, pc, refined_context, seqVars, outVars, attempt, backoffs,
                   lastRequest, callResult, tried, everProduced, error>>
    /\ UNCHANGED <<finished, keyVars, transportVars, appVars, evalVars, formatVars>>

NextTwin ==
    \/ \E o \in TwinOutcomes \cup {NoStep} : Choose(o)
    \/ TwinStep
    \/ Rewind
    \/ Continue

SpecTwin == InitTwin /\ [][NextTwin]_vars

TypeOK == pc \in {"start", "refine", "generate", "evaluate", "openai", "claude", "done", "raised"}

\* ------------------------------------------------------------------ claims
GeminiStages == {"refine", "generate", "evaluate"}
AllModels == {gemini_models[i] : i \in 1..Len(gemini_models)}
EarlierModels(idx) == {gemini_models[i] : i \in 1..(idx - 1)}

\* C1: a run for the grounded provider that returns has at least one
\* candidate in guides; a run that does not return has raised an error.
C1_NonEmptyOrRaise ==
    provider = "Gemini" =>
        /\ (pc = "done" => Len(guides) >= 1 /\ error = NoErr)
        /\ (pc = "raised" => error # NoErr)

C1_Witness == provider = "Gemini" /\ pc = "done" /\ Len(guides) >= 1 /\ active_model > 1

\* C2 (as claimed): at the end of a grounded run the candidate list is
\* non-empty if and only if some generation call to some model returned a
\* non-empty candidate during the run.
C2_NonEmptyIffProduced ==
    (provider = "Gemini" /\ pc \in {"done", "raised"}) =>
        ((guides # <<>>) <=> everProduced)

\* C3: generation requests go to the models in list order, one model after
\* the other and never back; once a model has ended its attempts with a
\* result it is the accepted model, every later request goes to it and is
\* an evaluation request, and the returned candidates are all its own.
C3_OrderAndAcceptance ==
    /\ [](provider = "Gemini" =>
            /\ (pc = "generate" =>
                    /\ active_model = 0
                    /\ guides = <<>>
                    /\ EarlierModels(modelIdx) \subseteq tried
                    /\ tried \subseteq EarlierModels(modelIdx + 1))
            /\ (active_model # 0 =>
                    /\ pc \in {"evaluate", "done"}
                    /\ active_model = gemini_models[modelIdx]
                    /\ tried = EarlierModels(modelIdx + 1)
                    /\ Len(guides) >= 1
                    /\ \A i \in 1..Len(guides) : guides[i].model = active_model)
            /\ (pc = "done" => model_used = active_model /\ active_model # 0))
    /\ [][provider = "Gemini" =>
            /\ (pc = "generate" =>
                    /\ lastRequest'.stage = "generate"
                    /\ lastRequest'.model = gemini_models[modelIdx]
                    /\ modelIdx' \in {modelIdx, modelIdx + 1})
            /\ (active_model # 0 =>
                    /\ lastRequest'.stage = "evaluate"
                    /\ lastRequest'.model = active_model
                    /\ active_model' = active_model
                    /\ guides' = guides
                    /\ tried' = tried)]_vars

C3_Witness ==
    /\ provider = "Gemini"
    /\ pc = "done"
    /\ active_model = 2
    /\ Len(guides) = 2
    /\ tried = {1, 2}
    /\ lastRequest.stage = "evaluate"

\* C4: when the calls of a model return nothing but the fallback sentence
\* on all of its attempts (every earlier model having raised), that model
\* is accepted: it is model_used, the candidate list is the one fallback
\* candidate, nothing is raised and the only requests left are evaluation
\* requests to that model.
C4_FallbackOnlyAccepted ==
    [][provider = "Gemini" =>
        /\ (/\ pc = "generate"
            /\ model_guides = <<>>
            /\ seqAttempt = 2
            /\ attempt' = 0
            /\ callResult'.tag = "return"
            /\ callResult'.got = "fallback_only")
           => /\ pc' = "evaluate"
              /\ active_model' = gemini_models[modelIdx]
              /\ modelIdx' = modelIdx
              /\ guides' = <<[text |-> default_fallback, model |-> gemini_models[modelIdx]]>>
              /\ error' = NoErr
        /\ pc = "evaluate"
           => /\ pc' \in {"evaluate", "done"}
              /\ lastRequest'.model = active_model
              /\ tried' = tried
              /\ guides' = guides
              /\ error' = NoErr]_vars

C4_Witness ==
    /\ provider = "Gemini"
    /\ pc = "done"
    /\ last_error.model = 1
    /\ last_error.kind # "none"
    /\ active_model = 2
    /\ guides = <<[text |-> default_fallback, model |-> 2]>>
    /\ tried = {1, 2}
    /\ error = NoErr

\* C5: a grounded run raises only after a generation request was sent to
\* every model of the list, and the error raised is the one the last
\* failing call raised (the generic error if none was recorded).
C5_RaisesLastError ==
    (provider = "Gemini" /\ pc = "raised") =>
        /\ tried = AllModels
        /\ guides = <<>>
        /\ callResult.stage = "generate"
        /\ callResult.tag = "raise"
        /\ callResult.model = gemini_models[Len(gemini_models)]
        /\ error = (IF callResult.err # NoErr THEN callResult.err ELSE AllFailedErr)
        /\ error.model = gemini_models[Len(gemini_models)]

C5_Witness ==
    /\ provider = "Gemini"
    /\ pc = "raised"
    /\ error.kind = "status"
    /\ error.status = 503
    /\ everProduced

\* C6: the stages of a grounded run follow one another in the order
\* refine, generate, evaluate: no call has ended when a refinement request
\* is sent, generation requests follow the refinement call, an evaluation
\* request is sent only when a model was accepted with at least one
\* candidate and goes to that model, and the run is over once the
\* evaluation call has ended.
StageRank(p) ==
    CASE p = "start" -> 0
      [] p \in {"refine", "openai", "claude"} -> 1
      [] p = "generate" -> 2
      [] p = "evaluate" -> 3
      [] OTHER -> 4

C6_StageOrder ==
    /\ [](provider = "Gemini" =>
            /\ (pc = "refine" =>
                    /\ callResult = NoCall
                    /\ lastRequest.stage \in {"none", "refine"})
            /\ (pc = "generate" =>
                    /\ callResult.stage \in {"refine", "generate"}
                    /\ lastRequest.stage \in {"refine", "generate"})
            /\ (pc = "evaluate" =>
                    /\ callResult.stage = "generate"
                    /\ callResult.tag = "return"
                    /\ callResult.model = active_model
                    /\ active_model # 0
                    /\ Len(guides) >= 1
                    /\ lastRequest.stage \in {"generate", "evaluate"})
            /\ (lastRequest.stage = "evaluate" => lastRequest.model = active_model)
            /\ (callResult.stage = "evaluate" => pc = "done"))
    /\ [][provider = "Gemini" =>
            /\ StageRank(pc') >= StageRank(pc)
            /\ (pc \in GeminiStages => lastRequest'.stage = pc)]_vars

C6_Witness ==
    /\ provider = "Gemini"
    /\ pc = "done"
    /\ callResult.stage = "evaluate"
    /\ callResult.tag = "return"
    /\ active_model = 3
    /\ evaluation.shape = "object"

\* C7: a refinement call that raises or returns no non-empty text does not
\* end the run: the refined context is the empty string, an exception is
\* reported on the status channel and to nobody else, and the model loop
\* starts from the first model exactly as after a successful refinement.
C7_RefineNeverAborts ==
    [][pc = "refine" =>
        /\ pc' \in {"refine", "generate"}
        /\ error' = NoErr
        /\ attempt' = 0 =>
            /\ pc' = "generate"
            /\ (callResult'.tag = "raise" \/ callResult'.got = "nothing")
                    => refined_context' = NoText
            /\ callResult'.tag = "raise" => "refine_skipped" \in emitted'
            /\ modelIdx' = 1
            /\ seqAttempt' = 0
            /\ model_guides' = <<>>
            /\ fallback_guide' = <<>>
            /\ last_error' = NoErr
            /\ guides' = <<>>
            /\ active_model' = 0
            /\ tried' = {}]_vars

C7_Witness ==
    /\ pc = "generate"
    /\ callResult.stage = "refine"
    /\ callResult.tag = "raise"
    /\ callResult.err.kind = "network"
    /\ refined_context = NoText
    /\ "refine_skipped" \in emitted
    /\ modelIdx = 1

\* C8: an exception of the evaluation call leaves the run successful with
\* the empty evaluation, and guides and the accepted model as they were.
C8_EvaluationFailureDegrades ==
    [][(pc = "evaluate" /\ attempt' = 0 /\ callResult'.tag = "raise") =>
        /\ pc' = "done"
        /\ error' = NoErr
        /\ evaluation' = NoEvaluation
        /\ guides' = guides
        /\ Len(guides') >= 1
        /\ active_model' = active_model
        /\ "evaluation_failed" \in emitted']_vars

C8_Witness ==
    /\ pc = "done"
    /\ callResult.stage = "evaluate"
    /\ callResult.tag = "raise"
    /\ evaluation = NoEvaluation
    /\ Len(guides) >= 1
    /\ model_used # 0

\* C9: a grounded transport call sends at most 3 requests; another request
\* follows a request only if that one ended in a network exception or in
\* status 429, 500, 502 or 503; a 200 response ends the call; and when the
\* third request fails the call raises an error carrying that failure.
C9_RetryPolicy ==
    [][(pc = "refine" \/ pc = "generate" \/ pc = "evaluate") =>
        /\ attempt + 1 <= 3
        /\ attempt' \in {0, attempt + 1}
        /\ attempt' = attempt + 1 =>
            (lastRequest'.kind = "neterr" \/ lastRequest'.status \in {429, 500, 502, 503})
        /\ lastRequest'.status = 200 => attempt' = 0
        /\ (attempt + 1 = 3 /\ lastRequest'.status # 200) =>
            /\ attempt' = 0
            /\ callResult'.tag = "raise"
            /\ lastRequest'.kind = "neterr" => callResult'.err.kind = "network"
            /\ lastRequest'.kind = "http" =>
                /\ callResult'.err.kind = "status"
                /\ callResult'.err.status = (lastRequest'.status)]_vars

C9_Witness ==
    /\ pc \in GeminiStages
    /\ attempt = 2
    /\ Len(backoffs) = 2
    /\ lastRequest.status = 502

\* C10: a response with a status other than 200, 429, 500, 502 and 503 ends
\* the transport call with an error on that very attempt, first, second or
\* third: no request follows and no delay is slept.
C10_NoRetryOnOtherStatus ==
    [][(/\ pc \in GeminiStages
        /\ lastRequest'.kind = "http"
        /\ lastRequest'.status \notin {200, 429, 500, 502, 503}) =>
        /\ attempt' = 0
        /\ backoffs' = <<>>
        /\ callResult'.tag = "raise"
        /\ callResult'.stage = pc
        /\ callResult'.err.kind = "status"
        /\ callResult'.err.status = (lastRequest'.status)]_vars

C10_Witness ==
    /\ callResult.stage = "generate"
    /\ callResult.tag = "raise"
    /\ callResult.err.kind = "status"
    /\ callResult.err.status = 404
    /\ lastRequest.status = 404
    /\ attempt = 0

\* ------------------------------------------- one transport call on its own
InitTransport ==
    /\ OrchIdle
    /\ KeysIdle
    /\ AppIdle
    /\ EvalIdle
    /\ FormatIdle
    /\ tModel \in AllModels
    /\ tFallback \in {NoText, default_fallback}
    /\ tAtt = 0
    /\ tLog = <<>>
    /\ tDelays = <<>>
    /\ tOut = NoOutcome

\* one HTTP request of _call_gemini_api (lines 323-397) with what follows it:
\* the sleep before the next attempt, or the end of the call
TransportRequest(o) ==
    /\ tOut.tag = "none"
    /\ tLog' = Append(tLog, o)
    /\ LET r == call_gemini_api(tAtt, o, tModel, tFallback)
       IN IF r.tag = "retry"
          THEN /\ tAtt' = tAtt + 1
               /\ tDelays' = Append(tDelays, r.delay)
               /\ tOut' = tOut
          ELSE /\ tOut' = [tag |-> r.tag, guides |-> r.guides, err |-> r.err]
               /\ UNCHANGED <<tAtt, tDelays>>
    /\ UNCHANGED <<tModel, tFallback, orchVars, twin, finished, keyVars, appVars, evalVars, formatVars>>

NextTransport == \E o \in GenOutcomes : TransportRequest(o)

SpecTransport == InitTransport /\ [][NextTransport]_vars

\* the outcomes _call_gemini_api retries: no response, or a transient status
Retryable(o) == o.kind = "neterr" \/ (o.kind = "http" /\ o.status \in RetryStatuses)

\* C11: when request k of a grounded transport call is answered with status
\* 200 and a JSON body, it is the last request of the call and k <= 3, the
\* k-1 requests before it failed in a retryable way, the call returns the
\* candidates parsed from the body of request k, and exactly k-1 delays were
\* slept, the j-th of base x j seconds (2, then 4); a call that has ended
\* slept one delay less than it sent requests, none after the last one.
C11_RetryThenSuccess ==
    /\ \A k \in 1..Len(tLog) :
          (tLog[k].kind = "http" /\ tLog[k].status = 200) =>
              /\ k = Len(tLog)
              /\ k <= max_retries
              /\ \A j \in 1..(k - 1) : Retryable(tLog[j])
              /\ tOut.tag = "return"
              /\ tOut.guides = ParseCandidates(tLog[k].body, tModel, tFallback)
              /\ tDelays = [j \in 1..(k - 1) |-> backoff_seconds * j]
    /\ (tOut.tag # "none" => Len(tDelays) = Len(tLog) - 1)

C11_Witness ==
    /\ tOut.tag = "return"
    /\ Len(tLog) = 3
    /\ tLog[1].status = 503
    /\ tLog[2].kind = "neterr"
    /\ tDelays = <<2, 4>>
    /\ tOut.guides # <<>>
    /\ tOut.guides[1].text # default_fallback
\* ------------------------------------------------- claims about call_ai_api
SupportedProviders == {"Gemini", "ChatGPT", "Claude"}

\* C12: for a provider that is not one of the supported providers no HTTP
\* request of any stage is ever sent and no transport call is ever made; the
\* run ends at once by raising the validation error.
C12_UnsupportedProvider ==
    provider \notin SupportedProviders =>
        /\ lastRequest = NoRequest
        /\ callResult = NoCall
        /\ tried = {}
        /\ pc \in {"start", "raised"}
        /\ (pc = "raised" => error = ValidationErr)
        /\ (pc = "start" => error = NoErr)

C12_Witness == provider = "Copilot" /\ pc = "raised" /\ error = ValidationErr
\* C13 (as claimed): a run for a non-grounded provider sends exactly one
\* HTTP request, to that provider, with no retry, no refinement and no
\* evaluation, and a run whose request succeeded returns exactly one
\* candidate, also when the text of the response is empty or whitespace.
C13_OneCallOneCandidate ==
    provider \in {"ChatGPT", "Claude"} =>
        /\ lastRequest.stage \in {"none", IF provider = "ChatGPT" THEN "openai" ELSE "claude"}
        /\ (lastRequest # NoRequest <=> pc \in {"done", "raised"})
        /\ attempt = 0
        /\ backoffs = <<>>
        /\ refined_context = NoText
        /\ evaluation = NoEvaluation
        /\ tried = {}
        /\ (pc = "done" =>
                /\ lastRequest.kind = "http"
                /\ lastRequest.status = 200
                /\ Len(guides) = 1)
\* ------------------------------------------------- the application window
Titles == {"Hades", "Celeste"}
SituationTexts == {"", "  ", " Stuck at the gate "}
UserGuideTexts == {"", "my notes"}
ApiKeys == {"", "key"}

SearchingText == "Searching game guides for your next move..."
FailedText == "Failed to generate hint. Error: ..."
NoGuidesText == "No guide suggestions were returned. Please try again with more context."
ReportText == "Guide Hint Suggestions ..."

\* str.strip() on the texts of the situation editor
stripSituation(t) ==
    CASE t = "  " -> ""
      [] t = " Stuck at the gate " -> "Stuck at the gate"
      [] OTHER -> t

\* _on_guide_output_changed (lines 544-555), the slot of the editor's
\* textChanged signal: the stored records after it ran
on_guide_output_changed(g, cur, updating, text) ==
    IF updating THEN g
    ELSE IF cur = NoGame \/ cur \notin DOMAIN g THEN g
    ELSE [g EXCEPT ![cur].guide = text]

\* variant: the text is set without raising _guide_output_updating, the
\* slot of textChanged runs as for a user edit
set_guide_output_text_NoFlag(g, cur, text) == on_guide_output_changed(g, cur, FALSE, text)

\* _set_guide_output_text (lines 536-542): the stored records after the
\* editor's text was set to text with _guide_output_updating raised
set_guide_output_text(g, cur, text) == on_guide_output_changed(g, cur, TRUE, text)

InitApp ==
    /\ OrchIdle
    /\ KeysIdle
    /\ TransportIdle
    /\ EvalIdle
    /\ FormatIdle
    /\ games \in UNION {[S -> {NewGame}] : S \in SUBSET Titles}
    /\ current_game = NoGame
    /\ is_edit_mode = FALSE
    /\ situation_input = NoText
    /\ guide_output = NoText
    /\ guide_read_only = FALSE
    /\ guide_button_enabled = TRUE
    /\ current_worker = NoWorker
    /\ shown = ""
    /\ sentFor = {}
    /\ outstanding = 0
    /\ game_now = NoGame

\* the variables the window does not touch
notAppVars == <<orchVars, twin, finished, keyVars, transportVars, evalVars, formatVars>>

runVars == <<guide_read_only, guide_button_enabled, current_worker, sentFor, outstanding,
            game_now>>

\* _on_game_selected and _load_game_details (lines 427-455) for the records
\* g; the editors are filled with their signals blocked
on_game_selected(title, g) ==
    /\ current_game' = title
    /\ is_edit_mode' = FALSE
    /\ situation_input' = g[title].situation
    /\ guide_output' = g[title].guide

\* itemClicked on an entry of the game list
SelectGame(title) ==
    /\ UNCHANGED notAppVars
    /\ title \in DOMAIN games
    /\ on_game_selected(title, games)
    /\ shown' = ""
    /\ UNCHANGED <<games, runVars>>

\* _add_new_game (lines 363-384) with the dialog accepted
AddNewGame(title) ==
    /\ UNCHANGED notAppVars
    /\ IF title = ""
       THEN /\ shown' = "Invalid Input"
            /\ UNCHANGED <<games, current_game, is_edit_mode, situation_input, guide_output>>
       ELSE IF title \in DOMAIN games
       THEN /\ shown' = "Game Exists"
            /\ UNCHANGED <<games, current_game, is_edit_mode, situation_input, guide_output>>
       ELSE /\ games' = [t \in DOMAIN games \cup {title} |->
                            IF t = title THEN NewGame ELSE games[t]]
            /\ on_game_selected(title, games')
            /\ shown' = ""
    /\ UNCHANGED runVars

\* _rename_game (lines 386-423) with the dialog accepted
RenameGame(old_title, new_title) ==
    /\ UNCHANGED notAppVars
    /\ old_title \in DOMAIN games
    /\ IF new_title = ""
       THEN /\ shown' = "Invalid Input"
            /\ UNCHANGED <<games, current_game, is_edit_mode, situation_input, guide_output,
                           game_now>>
       ELSE IF new_title = old_title
       THEN UNCHANGED <<shown, games, current_game, is_edit_mode, situation_input, guide_output,
                        game_now>>
       ELSE IF new_title \in DOMAIN games
       THEN /\ shown' = "Game Exists"
            /\ UNCHANGED <<games, current_game, is_edit_mode, situation_input, guide_output,
                           game_now>>
       ELSE /\ games' = [t \in (DOMAIN games \ {old_title}) \cup {new_title} |->
                            IF t = new_title THEN games[old_title] ELSE games[t]]
            /\ on_game_selected(new_title, games')
            /\ game_now' = IF game_now = old_title THEN new_title ELSE game_now
            /\ shown' = ""
    /\ UNCHANGED <<guide_read_only, guide_button_enabled, current_worker, sentFor, outstanding>>

\* _delete_current_game (lines 908-927) with the question answered Yes,
\* and _set_details_enabled(False) (lines 517-534)
DeleteCurrentGame ==
    /\ UNCHANGED notAppVars
    /\ is_edit_mode
    /\ IF current_game = NoGame
       THEN UNCHANGED <<games, current_game, is_edit_mode, situation_input, guide_output,
                        guide_read_only, game_now>>
       ELSE /\ games' = set_guide_output_text(
                            [t \in DOMAIN games \ {current_game} |-> games[t]], NoGame, NoText)
            /\ current_game' = NoGame
            /\ situation_input' = NoText
            /\ guide_output' = NoText
            /\ guide_read_only' = FALSE
            /\ is_edit_mode' = FALSE
            /\ game_now' = IF game_now = current_game THEN NoGame ELSE game_now
    /\ shown' = ""
    /\ UNCHANGED <<guide_button_enabled, current_worker, sentFor, outstanding>>

\* _enter_edit_mode (lines 458-461), the edit button of the view
EnterEditMode ==
    /\ UNCHANGED notAppVars
    /\ current_game # NoGame
    /\ ~is_edit_mode
    /\ is_edit_mode' = TRUE
    /\ guide_read_only' = FALSE
    /\ shown' = ""
    /\ UNCHANGED <<games, current_game, situation_input, guide_output,
                   guide_button_enabled, current_worker, sentFor, outstanding, game_now>>

\* _exit_edit_mode (lines 463-465), the done button
ExitEditMode ==
    /\ UNCHANGED notAppVars
    /\ is_edit_mode
    /\ is_edit_mode' = FALSE
    /\ shown' = ""
    /\ UNCHANGED <<games, current_game, situation_input, guide_output, runVars>>

\* the user changes the situation editor: _on_text_changed (lines 557-564)
EditSituation(text) ==
    /\ UNCHANGED notAppVars
    /\ is_edit_mode
    /\ text # situation_input
    /\ situation_input' = text
    /\ games' = IF current_game = NoGame \/ current_game \notin DOMAIN games THEN games
                ELSE [games EXCEPT ![current_game].situation = text]
    /\ shown' = ""
    /\ UNCHANGED <<current_game, is_edit_mode, guide_output, runVars>>

\* the user changes the guide editor: _on_guide_output_changed (lines 544-555)
EditGuide(text) ==
    /\ UNCHANGED notAppVars
    /\ is_edit_mode
    /\ ~guide_read_only
    /\ text # guide_output
    /\ guide_output' = text
    /\ games' = on_guide_output_changed(games, current_game, FALSE, text)
    /\ shown' = ""
    /\ UNCHANGED <<current_game, is_edit_mode, situation_input, runVars>>

\* variant: the button is not disabled for the time of the run
guide_button_while_running_Enabled == TRUE

\* line 585: guide_button.setEnabled(False)
guide_button_while_running == FALSE

\* variant: the test of the stripped situation (lines 573-576) is missing
generate_guide_NoCheck(api_key) ==
    /\ UNCHANGED notAppVars
    /\ is_edit_mode
    /\ guide_button_enabled
    /\ LET situation == stripSituation(situation_input)
       IN IF current_game = NoGame
          THEN UNCHANGED appVars
          ELSE IF api_key = ""
          THEN /\ shown' = "API Key Missing"
               /\ UNCHANGED <<games, current_game, is_edit_mode, situation_input,
                              guide_output, runVars>>
          ELSE /\ guide_button_enabled' = guide_button_while_running
               /\ outstanding' = outstanding + 1
               /\ guide_read_only' = TRUE
               /\ guide_output' = SearchingText
               /\ games' = set_guide_output_text(games, current_game, SearchingText)
               /\ current_worker' = [status |-> "running", game_title |-> current_game,
                                     situation |-> situation, result |-> "none"]
               /\ game_now' = current_game
               /\ shown' = ""
               /\ UNCHANGED <<current_game, is_edit_mode, situation_input, sentFor>>

\* _generate_guide (lines 569-621), the slot of the guide button, with
\* api_key the stored key of the selected provider
generate_guide(api_key) ==
    /\ UNCHANGED notAppVars
    /\ is_edit_mode
    /\ guide_button_enabled
    /\ LET situation == stripSituation(situation_input)
       IN IF current_game = NoGame
          THEN UNCHANGED appVars
          ELSE IF situation = NoText
          THEN /\ shown' = "Missing Information"
               /\ UNCHANGED <<games, current_game, is_edit_mode, situation_input,
                              guide_output, runVars>>
          ELSE IF api_key = ""
          THEN /\ shown' = "API Key Missing"
               /\ UNCHANGED <<games, current_game, is_edit_mode, situation_input,
                              guide_output, runVars>>
          ELSE /\ guide_button_enabled' = guide_button_while_running
               /\ outstanding' = outstanding + 1
               /\ guide_read_only' = TRUE
               /\ guide_output' = SearchingText
               /\ games' = set_guide_output_text(games, current_game, SearchingText)
               /\ current_worker' = [status |-> "running", game_title |-> current_game,
                                     situation |-> situation, result |-> "none"]
               /\ game_now' = current_game
               /\ shown' = ""
               /\ UNCHANGED <<current_game, is_edit_mode, situation_input, sentFor>>

\* the worker thread: one HTTP request of call_ai_api for the worker's
\* parameters (workers.py lines 30-38)
WorkerRequest ==
    /\ UNCHANGED notAppVars
    /\ current_worker.status = "running"
    /\ sentFor' = sentFor \cup {current_worker.situation}
    /\ shown' = ""
    /\ UNCHANGED <<games, current_game, is_edit_mode, situation_input, guide_output,
                   guide_read_only, guide_button_enabled, current_worker, outstanding, game_now>>

\* the worker thread: call_ai_api returns or raises and finished is emitted
\* (workers.py lines 39-41)
WorkerEmitFinished(result) ==
    /\ UNCHANGED notAppVars
    /\ current_worker.status = "running"
    /\ current_worker' = [current_worker EXCEPT !.status = "finished", !.result = result]
    /\ shown' = ""
    /\ UNCHANGED <<games, current_game, is_edit_mode, situation_input, guide_output,
                   guide_read_only, guide_button_enabled, sentFor, outstanding, game_now>>

\* _on_worker_finished (lines 623-663), the slot of the worker's finished
on_worker_finished ==
    /\ UNCHANGED notAppVars
    /\ current_worker.status = "finished"
    /\ current_worker' = NoWorker
    /\ outstanding' = outstanding - 1
    /\ game_now' = NoGame
    /\ guide_button_enabled' = TRUE
    /\ guide_read_only' = FALSE
    /\ CASE current_worker.result = "error" ->
              /\ shown' = "API Error"
              /\ guide_output' = FailedText
              /\ games' = set_guide_output_text(games, current_game, FailedText)
         [] current_worker.result = "empty" ->
              /\ shown' = ""
              /\ guide_output' = NoGuidesText
              /\ games' = set_guide_output_text(games, current_game, NoGuidesText)
         [] OTHER ->
              /\ shown' = ""
              /\ guide_output' = ReportText
              /\ games' = LET g == set_guide_output_text(games, current_game, ReportText)
                          IN IF current_game # NoGame
                             THEN [g EXCEPT ![current_game].guide = ReportText]
                             ELSE g
    /\ UNCHANGED <<current_game, is_edit_mode, situation_input, sentFor>>

NextApp ==
    \/ \E title \in Titles : SelectGame(title)
    \/ \E title \in Titles \cup {""} : AddNewGame(title)
    \/ \E old_title \in Titles, new_title \in Titles \cup {""} : RenameGame(old_title, new_title)
    \/ DeleteCurrentGame
    \/ EnterEditMode
    \/ ExitEditMode
    \/ \E text \in SituationTexts : EditSituation(text)
    \/ \E text \in UserGuideTexts : EditGuide(text)
    \/ \E api_key \in ApiKeys : generate_guide(api_key)
    \/ WorkerRequest
    \/ \E result \in {"error", "empty", "report"} : WorkerEmitFinished(result)
    \/ on_worker_finished

SpecApp == InitApp /\ [][NextApp]_vars
\* --------------------------------------------- claims about the window
\* C14: a click on the guide button while the situation is empty after
\* stripping is answered at once with the "Missing Information" warning and
\* starts no worker and changes nothing else; so no worker ever runs for an
\* empty situation and no HTTP request is ever sent for one.
C14_EmptySituationRejected ==
    /\ [](NoText \notin sentFor)
    /\ [](current_worker.status # "none" => current_worker.situation # NoText)
    /\ [][\A api_key \in ApiKeys :
            (/\ generate_guide(api_key)
             /\ current_game # NoGame
             /\ stripSituation(situation_input) = NoText)
            => (/\ shown' = "Missing Information"
                /\ current_worker' = NoWorker
                /\ UNCHANGED <<games, guide_output, guide_read_only, guide_button_enabled,
                               sentFor>>)]_vars

C14_Witness ==
    /\ shown = "Missing Information"
    /\ situation_input = "  "
    /\ current_worker = NoWorker
    /\ guide_button_enabled
    /\ guide_output # SearchingText
    /\ sentFor = {}
\* the step starts a run: _generate_guide creates the worker
RunStarts == current_worker.status = "none" /\ current_worker'.status = "running"

\* the step is _on_worker_finished for a result that carries an error
RunFailed ==
    /\ current_worker.status = "finished"
    /\ current_worker.result = "error"
    /\ current_worker'.status = "none"

\* C15: the steps of a run that ends in a hard failure write nothing to the
\* stored records: starting the run shows the searching placeholder in the
\* editor only, the worker's steps touch no record, and the handler of a
\* result with an error shows the error in a message box and in the editor
\* only; the guide field (and every other field) of every game is left as
\* it was.
C15_HardFailureLeavesStored ==
    [][/\ (RunStarts => (games' = games /\ guide_output' = SearchingText))
       /\ (current_worker.status = "running" /\ current_worker' # current_worker
              => games' = games)
       /\ (current_worker.status = "running" /\ sentFor' # sentFor => games' = games)
       /\ (RunFailed => /\ games' = games
                        /\ guide_output' = FailedText
                        /\ shown' = "API Error")]_vars

C15_Witness ==
    /\ shown = "API Error"
    /\ guide_output = FailedText
    /\ current_worker = NoWorker
    /\ current_game \in DOMAIN games
    /\ games[current_game].guide = "my notes"
\* ------------------------------------- _evaluate_gemini_guides, the parsing
MaxTextLen == 5

\* a text is a sequence of tokens: a code fence, the word json (any case),
\* white space, the two braces, the members of a JSON object, a number
\* literal and a word of prose
Tokens == {"fence", "json", " ", "{", "}", "members", "7", "prose"}

RECURSIVE lstrip(_)
lstrip(t) == IF t # <<>> /\ Head(t) = " " THEN lstrip(Tail(t)) ELSE t

RECURSIVE rstrip(_)
rstrip(t) == IF t # <<>> /\ t[Len(t)] = " " THEN rstrip(SubSeq(t, 1, Len(t) - 1)) ELSE t

\* str.strip() on a token sequence
strip_text(t) == rstrip(lstrip(t))

\* str.find and str.rfind of a single token, 1-based, 0 for -1
find(t, c) == IF \E i \in 1..Len(t) : t[i] = c
              THEN CHOOSE i \in 1..Len(t) : t[i] = c /\ \A j \in 1..(i - 1) : t[j] # c
              ELSE 0
rfind(t, c) == IF \E i \in 1..Len(t) : t[i] = c
               THEN CHOOSE i \in 1..Len(t) : t[i] = c /\ \A j \in (i + 1)..Len(t) : t[j] # c
               ELSE 0

\* json.loads: a number, or an object with or without members, white space
\* allowed around every token; anything else is a JSONDecodeError
json_loads(t) ==
    LET u == strip_text(t)
        inner == strip_text(SubSeq(u, 2, Len(u) - 1))
    IN IF u = <<"7">> THEN [ok |-> TRUE, value |-> "number"]
       ELSE IF Len(u) >= 2 /\ u[1] = "{" /\ u[Len(u)] = "}" /\ inner = <<>>
       THEN [ok |-> TRUE, value |-> "empty_object"]
       ELSE IF Len(u) >= 2 /\ u[1] = "{" /\ u[Len(u)] = "}" /\ inner = <<"members">>
       THEN [ok |-> TRUE, value |-> "object"]
       ELSE [ok |-> FALSE, value |-> "none"]

\* lines 455-461: a leading code fence, its language tag and a trailing
\* fence are removed
strip_fences(cleaned_text) ==
    IF cleaned_text # <<>> /\ Head(cleaned_text) = "fence"
    THEN LET a == Tail(cleaned_text)
             b == IF a # <<>> /\ Head(a) = "json" THEN Tail(a) ELSE a
             c == strip_text(b)
         IN IF c # <<>> /\ c[Len(c)] = "fence"
            THEN strip_text(SubSeq(c, 1, Len(c) - 1))
            ELSE c
    ELSE cleaned_text

\* lines 463-467: a text that does not start with a brace is cut down to
\* what lies between its first opening and its last closing brace
slice_braces(cleaned_text) ==
    IF cleaned_text = <<>> \/ Head(cleaned_text) # "{"
    THEN LET start == find(cleaned_text, "{")
             end == rfind(cleaned_text, "}")
         IN IF start # 0 /\ end # 0 /\ end > start
            THEN SubSeq(cleaned_text, start, end)
            ELSE cleaned_text
    ELSE cleaned_text

\* the text handed to json.loads (lines 453-467)
cleaned(raw_text) == slice_braces(strip_fences(strip_text(raw_text)))

EmptyEvaluation == [kind |-> "empty", recommended_index |-> 0, confidence |-> 0,
                    reasoning |-> <<>>, value |-> "none"]

\* variant: the except clause of lines 471-476 is missing
on_decode_error_Reraise(raw_text) ==
    [kind |-> "raise", recommended_index |-> 0, confidence |-> 0,
     reasoning |-> <<>>, value |-> "none"]

\* lines 471-476: the record returned for a JSONDecodeError
on_decode_error(raw_text) ==
    [kind |-> "degraded", recommended_index |-> 0, confidence |-> 0,
     reasoning |-> raw_text, value |-> "none"]

\* _evaluate_gemini_guides from line 449 on, for the text of the first
\* candidate of the evaluation call
evaluate_text(text) ==
    LET raw_text == strip_text(text)
        parsed == json_loads(cleaned(raw_text))
    IN IF raw_text = <<>> THEN EmptyEvaluation
       ELSE IF parsed.ok
       THEN [kind |-> "parsed", recommended_index |-> 0, confidence |-> 0,
             reasoning |-> <<>>, value |-> parsed.value]
       ELSE on_decode_error(raw_text)

InitEvaluate ==
    /\ OrchIdle
    /\ KeysIdle
    /\ TransportIdle
    /\ AppIdle
    /\ FormatIdle
    /\ evText \in SeqsUpTo(Tokens, MaxTextLen)
    /\ evOut = NotEvaluated

EvaluateText ==
    /\ evOut.kind = "none"
    /\ evOut' = evaluate_text(evText)
    /\ UNCHANGED <<evText, orchVars, twin, finished, keyVars, transportVars, appVars, formatVars>>

NextEvaluate == EvaluateText

SpecEvaluate == InitEvaluate /\ [][NextEvaluate]_vars

\* C16: an evaluator text that is not empty and that json.loads rejects
\* after the fences were stripped and the text was cut to its outermost
\* braces makes _evaluate_gemini_guides return recommended_index 0,
\* confidence 0 and the stripped response text as reasoning; it does not
\* raise. In particular every text with a word of prose and without an
\* opening brace is answered so.
C16_MalformedDegrades ==
    evOut.kind # "none" =>
        LET raw_text == strip_text(evText)
        IN /\ evOut.kind # "raise"
           /\ (raw_text # <<>> /\ ~json_loads(cleaned(raw_text)).ok) =>
                  /\ evOut.kind = "degraded"
                  /\ evOut.recommended_index = 0
                  /\ evOut.confidence = 0
                  /\ evOut.reasoning = raw_text
           /\ ((\E i \in 1..Len(evText) : evText[i] = "prose")
                /\ (\A i \in 1..Len(evText) : evText[i] # "{")) =>
                  /\ evOut.kind = "degraded"
                  /\ evOut.reasoning = raw_text

C16_Witness ==
    /\ evOut.kind = "degraded"
    /\ evText = <<"fence", "json", "{", "prose", "fence">>
    /\ evOut.reasoning = evText
\* ---------------------------------------------------- _format_guide_output
MaxGuides == 3
MaxLong == 6

\* texts of candidates
CandTexts == {"", "  ", "Go to the castle.", "go  to the castle.", "Talk to the elder."}

\* texts that differ in their punctuation only, and the fallback sentence
ExampleTexts == {"Go to the castle.", "go to the castle", "Talk to the elder.",
                 default_fallback}

\* lower-case texts with single blanks, for lists of many different answers
HintTexts == <<"hint 1", "hint 2", "hint 3", "hint 4", "hint 5", "hint 6", "hint 7",
               "hint 8">>

\* variant: " ".join(text.split()), the case is kept
normalize_CaseKept(text) ==
    CASE text = "go  to the castle." -> "go to the castle."
      [] OTHER -> text

\* " ".join(text.lower().split()) on the stripped texts above
normalize(text) ==
    CASE text = "Go to the castle." -> "go to the castle."
      [] text = "go  to the castle." -> "go to the castle."
      [] text = "Talk to the elder." -> "talk to the elder."
      [] text = default_fallback ->
            "no reliable hint could be confirmed from the available guides."
      [] OTHER -> text

\* entries of a candidate's "sources" list; the empty string is skipped
SourceWiki == "Wiki - https://wiki.example/gate"
SourceForum == "https://forum.example/t/1"
SourceLists == {<<SourceWiki>>, <<SourceForum, SourceWiki>>, <<"", SourceForum>>,
                <<SourceWiki, SourceWiki>>}

\* the order of str: by code point, "W" before "h"
SourceOrder == <<SourceWiki, SourceForum>>

\* the orders a set of the sources can be iterated in (string hashes are
\* salted per process)
HashOrders == {<<SourceWiki, SourceForum>>, <<SourceForum, SourceWiki>>}

\* a candidate without sources, and the candidates with sources
Cand(text) == [text |-> text, sources |-> <<>>]
SourcedCands == [text : {"Go to the castle.", "go  to the castle."}, sources : SourceLists]

\* the shapes of the lists of at most n answers up to renaming the answers:
\* the k-th different answer of a list is answer k
RECURSIVE Shapes(_)
Shapes(n) ==
    IF n = 0 THEN {<<>>}
    ELSE LET shorter == Shapes(n - 1)
             longest == {s \in shorter : Len(s) = n - 1}
             used(s) == Cardinality({s[i] : i \in 1..Len(s)})
         IN shorter \cup UNION {{Append(s, k) : k \in 1..(used(s) + 1)} : s \in longest}

LongLists == {[i \in 1..Len(s) |-> Cand(HintTexts[s[i]])] : s \in Shapes(MaxLong)}

ModelNames == {NoText, "gemini-2.5-pro"}
ContextTexts == {NoText, "  ", " The player is at the gate. "}

PyNone == [type |-> "none", num |-> 0, text |-> ""]
PyInt(n) == [type |-> "int", num |-> 10 * n, text |-> ""]
PyFloat(tenths) == [type |-> "float", num |-> tenths, text |-> ""]
PyInf == [type |-> "inf", num |-> 0, text |-> ""]
PyStr(t) == [type |-> "str", num |-> 0, text |-> t]
PyList == [type |-> "list", num |-> 0, text |-> "[1]"]

\* values json.loads can put under "recommended_index": no key, null, whole
\* numbers around 1..N, 2.7, 1e999 (parsed as float infinity), strings, a list
RecIndexValues ==
    {Absent, PyNone, PyInf, PyFloat(27), PyStr("2"), PyStr("abc"), PyList}
    \cup {PyInt(n) : n \in (0 - 1)..(MaxGuides + 1)}

\* values under "confidence": no key, "", 90, 90.5, 150, "85", "high"
ConfidenceValues == {Absent, PyStr(""), PyInt(90), PyFloat(905), PyInt(150), PyStr("85"),
                     PyStr("high")}

Reasonings == {"", "Matches known walkthrough"}

Evaluations ==
    {NoEval} \cup [given : {TRUE}, recommended_index : RecIndexValues,
                   confidence : ConfidenceValues, reasoning : Reasonings]

\* dict.get(key, default)
get(v, default) == IF v.type = "absent" THEN default ELSE v

\* truth value of a Python value
truthy(v) ==
    CASE v.type \in {"int", "float"} -> v.num # 0
      [] v.type = "str" -> v.text # ""
      [] v.type \in {"inf", "list"} -> TRUE
      [] OTHER -> FALSE

\* int(v): whole numbers as they are, floats cut towards zero, infinity an
\* OverflowError, strings parsed as decimal literals, a list a TypeError
int_of(v) ==
    CASE v.type = "int" -> [exc |-> "none", val |-> v.num \div 10]
      [] v.type = "float" ->
            [exc |-> "none",
             val |-> IF v.num >= 0 THEN v.num \div 10 ELSE 0 - ((0 - v.num) \div 10)]
      [] v.type = "inf" -> [exc |-> "OverflowError", val |-> 0]
      [] v.type = "str" ->
            IF v.text = "2" THEN [exc |-> "none", val |-> 2]
            ELSE [exc |-> "ValueError", val |-> 0]
      [] OTHER -> [exc |-> "TypeError", val |-> 0]

\* line 731: int(evaluation.get("recommended_index", 0) or 0)
recommended_original(evaluation_) ==
    LET v == get(evaluation_.recommended_index, PyInt(0))
    IN int_of(IF truthy(v) THEN v ELSE PyInt(0))

\* f"{x:.0f}" for x >= 0 given in tenths: round to the nearest whole number,
\* a tie to the even one
format_0f(tenths) ==
    LET q == tenths \div 10
        r == tenths % 10
    IN IF r < 5 THEN q
       ELSE IF r > 5 THEN q + 1
       ELSE IF q % 2 = 0 THEN q ELSE q + 1

Percent(tenths) == [kind |-> "percent", tenths |-> tenths, text |-> ""]
Verbatim(text) == [kind |-> "text", tenths |-> 0, text |-> text]

\* lines 735-740: evaluation_confidence
confidence_display(evaluation_) ==
    LET v == get(evaluation_.confidence, PyNone)
    IN IF v.type = "none" \/ (v.type = "str" /\ v.text = "") THEN NoDisplay
       ELSE CASE v.type \in {"int", "float"} -> Percent(10 * format_0f(v.num))
              [] v.type = "inf" -> Verbatim("inf%")
              [] v.type = "str" /\ v.text = "85" -> Percent(850)
              [] OTHER -> Verbatim(v.text)

\* position of the key normalized in the list order, 0 if it is not in it
key_position(entries, normalized) ==
    IF \E d \in 1..Len(entries) : entries[d].key = normalized
    THEN CHOOSE d \in 1..Len(entries) : entries[d].key = normalized
    ELSE 0

\* variant: the index of a candidate merged into an existing entry is not
\* recorded
add_candidate_NoIndex(agg, idx, text) ==
    LET normalized == normalize(text)
        pos == key_position(agg.entries, normalized)
    IN IF pos = 0
       THEN [entries |-> Append(agg.entries, [key |-> normalized, text |-> text,
                                              sources |-> {}, count |-> 1,
                                              indices |-> <<idx>>]),
             total |-> agg.total + 1]
       ELSE [entries |-> [agg.entries EXCEPT ![pos].count = @ + 1],
             total |-> agg.total + 1]

\* variant: the candidate is not counted in total
count_candidate_Forgotten(total) == total

\* line 719: total += 1
count_candidate(total) == total + 1

\* lines 711-719: one candidate with the non-empty stripped text is added
\* to aggregation and order
add_candidate(agg, idx, text) ==
    LET normalized == normalize(text)
        pos == key_position(agg.entries, normalized)
        entries == IF pos = 0
                   THEN Append(agg.entries, [key |-> normalized, text |-> text,
                                             sources |-> {}, count |-> 0,
                                             indices |-> <<>>])
                   ELSE agg.entries
        p == IF pos = 0 THEN Len(entries) ELSE pos
    IN [entries |-> [entries EXCEPT ![p].count = @ + 1, ![p].indices = Append(@, idx)],
        total |-> count_candidate(agg.total)]

\* lines 721-723: the non-empty sources of the candidate are added to the
\* set of the entry it was counted in
add_sources(agg, normalized, sources) ==
    LET p == key_position(agg.entries, normalized)
    IN [agg EXCEPT !.entries[p].sources =
            @ \cup {sources[k] : k \in {j \in 1..Len(sources) : sources[j] # ""}}]

\* lines 706-723: the loop over enumerate(guides, start=1), from idx on
RECURSIVE aggregate(_, _, _)
aggregate(guides_, idx, agg) ==
    IF idx > Len(guides_) THEN agg
    ELSE LET text == strip(guides_[idx].text)
         IN IF text = NoText
            THEN aggregate(guides_, idx + 1, agg)
            ELSE aggregate(guides_, idx + 1,
                           add_sources(add_candidate(agg, idx, text), normalize(text),
                                       guides_[idx].sources))

\* the members of the set in the order of the sequence
in_order(set, order) == SelectSeq(order, LAMBDA x : x \in set)

\* variant: list(data["sources"]), the set as it is iterated
sources_shown_Unsorted(sources, hash_order) == in_order(sources, hash_order)

\* line 759: sorted(data["sources"]); what sorted returns does not depend on
\* the order the set hands its members over in
sources_shown(sources, hash_order) == in_order(sources, SourceOrder)

\* lines 769-771: provider_line, the model named only if model_name is set
provider_line(provider_, model_name) ==
    IF model_name # NoText THEN <<"Provider: ", provider_, " (model: ", model_name, ")">>
    ELSE <<"Provider: ", provider_>>

\* variant: the tenths are cut off instead of rounded
trust_tenths_Truncated(count, total) ==
    IF total = 0 THEN 1000 ELSE (1000 * count) \div total

\* lines 749-750: count / total * 100 with one decimal, in tenths
trust_tenths(count, total) ==
    IF total = 0 THEN 1000 ELSE (2000 * count + total) \div (2 * total)

\* variant: the recommended index is taken for a display position
resolve_recommended_Direct(entries, recommended_original_index) ==
    IF recommended_original_index \in 1..Len(entries) THEN recommended_original_index ELSE 0

\* lines 745-753: recommended_agg_index, the display position of the entry
\* whose indices hold recommended_original_index
resolve_recommended(entries, recommended_original_index) ==
    LET holding == {d \in 1..Len(entries) :
                        /\ recommended_original_index # 0
                        /\ \E k \in 1..Len(entries[d].indices) :
                               entries[d].indices[k] = recommended_original_index}
    IN IF holding = {} THEN 0
       ELSE CHOOSE d \in holding : \A e \in holding : e <= d

\* _format_guide_output (lines 698-801)
format_guide_output(guides_, provider_, evaluation_, model_name, refined_context_, hash_order) ==
    IF guides_ = <<>>
    THEN [NotFormatted EXCEPT !.kind = "no_guides"]
    ELSE
    LET agg == aggregate(guides_, 1, [entries |-> <<>>, total |-> 0])
        r == IF evaluation_.given THEN recommended_original(evaluation_)
             ELSE [exc |-> "none", val |-> 0]
        recommended_original_index == IF r.exc = "none" THEN r.val ELSE 0
        evaluation_confidence == IF evaluation_.given THEN confidence_display(evaluation_)
                                 ELSE NoDisplay
        evaluation_reasoning == IF evaluation_.given THEN evaluation_.reasoning ELSE ""
        recommended_agg_index == resolve_recommended(agg.entries, recommended_original_index)
        trust(d) == Percent(trust_tenths(agg.entries[d].count, agg.total))
        is_recommended(d) == d = recommended_agg_index /\ recommended_agg_index > 0
        with_line == Len(agg.entries) > 1 /\ recommended_agg_index # 0
    IN IF r.exc \notin {"none", "ValueError", "TypeError"}
       THEN [NotFormatted EXCEPT !.kind = "raised", !.exc = r.exc]
       ELSE [kind |-> "report",
             exc |-> "none",
             provider_line |-> provider_line(provider_, model_name),
             context_block |-> strip(refined_context_),
             entries |-> [d \in 1..Len(agg.entries) |->
                            [display_index |-> d,
                             text |-> agg.entries[d].text,
                             sources |-> sources_shown(agg.entries[d].sources,
                                                       hash_order),
                             trust |-> trust(d),
                             count |-> agg.entries[d].count,
                             original_indices |-> agg.entries[d].indices,
                             marker |-> is_recommended(d),
                             shown_trust |-> IF is_recommended(d)
                                                /\ evaluation_confidence # NoDisplay
                                             THEN evaluation_confidence
                                             ELSE trust(d)]],
             total |-> agg.total,
             recommended_agg_index |-> recommended_agg_index,
             recommended_line |->
                 IF with_line
                 THEN <<[index |-> recommended_agg_index,
                         trust |-> IF evaluation_confidence # NoDisplay
                                   THEN evaluation_confidence
                                   ELSE trust(recommended_agg_index)]>>
                 ELSE <<>>,
             why |-> IF with_line THEN evaluation_reasoning ELSE ""]

InitFormat ==
    /\ OrchIdle
    /\ KeysIdle
    /\ TransportIdle
    /\ AppIdle
    /\ EvalIdle
    /\ \/ /\ fGuides \in SeqsUpTo({Cand(t) : t \in CandTexts}, MaxGuides)
          /\ fEvaluation \in Evaluations
          /\ fProvider = "Gemini"
          /\ fModelName = "gemini-2.5-pro"
          /\ fRefinedContext = NoText
       \/ /\ fGuides \in LongLists \cup SeqsUpTo({Cand(t) : t \in ExampleTexts}, MaxGuides)
                               \cup SeqsUpTo(SourcedCands, MaxGuides)
          /\ fEvaluation = NoEval
          /\ fProvider = "Gemini"
          /\ fModelName = "gemini-2.5-pro"
          /\ fRefinedContext = NoText
       \/ /\ fGuides = <<Cand("Talk to the elder.")>>
          /\ fEvaluation = NoEval
          /\ fProvider \in SupportedProviders
          /\ fModelName \in ModelNames
          /\ fRefinedContext \in ContextTexts
    /\ fOut = NotFormatted
    /\ fAgain = NotFormatted

\* the first call
FormatGuideOutput ==
    /\ fOut.kind = "none"
    /\ \E hash_order \in HashOrders :
          fOut' = format_guide_output(fGuides, fProvider, fEvaluation, fModelName,
                                      fRefinedContext, hash_order)
    /\ UNCHANGED <<formatArgs, fAgain, orchVars, twin, finished, keyVars, transportVars, appVars, evalVars>>

\* a later call with the same arguments; its sets may be iterated in
\* another order
FormatGuideOutputAgain ==
    /\ fOut.kind # "none"
    /\ fAgain.kind = "none"
    /\ \E hash_order \in HashOrders :
          fAgain' = format_guide_output(fGuides, fProvider, fEvaluation, fModelName,
                                       fRefinedContext, hash_order)
    /\ UNCHANGED <<formatArgs, fOut, orchVars, twin, finished, keyVars, transportVars, appVars, evalVars>>

NextFormat == FormatGuideOutput \/ FormatGuideOutputAgain

SpecFormat == InitFormat /\ [][NextFormat]_vars
\* ------------------------------------------------ claims about the report
\* the value denotes a whole number between 1 and n the way int() reads it
DenotesIndex(v, n) ==
    \/ v.type = "int" /\ (v.num \div 10) \in 1..n
    \/ v.type = "float" /\ v.num > 0 /\ (v.num \div 10) \in 1..n
    \/ v.type = "str" /\ v.text = "2" /\ 2 \in 1..n

\* C17 (as claimed): when the evaluation's recommended_index cannot be read
\* as an integer or is not in 1..N, N the number of candidates, the report
\* is produced as for no recommendation: no entry carries the marker, there
\* is no 'Recommended Guide' line and every entry shows its own trust.
C17_BadIndexIsNoRecommendation ==
    (/\ fOut.kind # "none"
     /\ fGuides # <<>>
     /\ fEvaluation.given
     /\ ~DenotesIndex(fEvaluation.recommended_index, Len(fGuides))) =>
        /\ fOut.kind = "report"
        /\ fOut.recommended_agg_index = 0
        /\ fOut.recommended_line = <<>>
        /\ \A d \in 1..Len(fOut.entries) :
              /\ ~fOut.entries[d].marker
              /\ fOut.entries[d].shown_trust = fOut.entries[d].trust
\* the clustering key of candidate i of the formatted list
KeyOf(i) == normalize(strip(fGuides[i].text))

\* the candidates with a non-empty stripped text
NonEmpty == {i \in 1..Len(fGuides) : strip(fGuides[i].text) # NoText}

\* the first candidate with the key of candidate i
FirstWithKey(i) == CHOOSE j \in NonEmpty : KeyOf(j) = KeyOf(i) /\ \A k \in NonEmpty : KeyOf(k) = KeyOf(i) => j <= k

\* C18: when the evaluation's recommended_index reads as the 1-based index
\* i of a candidate with non-empty text, exactly one entry of the report
\* carries the marker: the one whose original_indices hold i. It is the
\* cluster opened by the first candidate with the same normalized text as
\* candidate i, at that cluster's display position (the number of distinct
\* keys seen up to that first candidate), also when i itself was merged
\* into it later.
C18_RecommendedResolvesToCluster ==
    (/\ fOut.kind = "report"
     /\ fEvaluation.given
     /\ recommended_original(fEvaluation).exc = "none"
     /\ recommended_original(fEvaluation).val \in NonEmpty) =>
        LET i == recommended_original(fEvaluation).val
            first == FirstWithKey(i)
            d == Cardinality({KeyOf(j) : j \in {k \in NonEmpty : k <= first}})
        IN /\ d \in 1..Len(fOut.entries)
           /\ fOut.recommended_agg_index = d
           /\ fOut.entries[d].marker
           /\ fOut.entries[d].display_index = d
           /\ fOut.entries[d].original_indices[1] = first
           /\ \E k \in 1..Len(fOut.entries[d].original_indices) :
                 fOut.entries[d].original_indices[k] = i
           /\ \A e \in 1..Len(fOut.entries) :
                 e # d => /\ ~fOut.entries[e].marker
                          /\ \A k \in 1..Len(fOut.entries[e].original_indices) :
                                fOut.entries[e].original_indices[k] # i
           /\ (Len(fOut.entries) > 1 =>
                 Len(fOut.recommended_line) = 1 /\ fOut.recommended_line[1].index = d)

C18_Witness ==
    /\ fOut.kind = "report"
    /\ fGuides = <<Cand("Talk to the elder."), Cand("Go to the castle."),
                   Cand("go  to the castle.")>>
    /\ fEvaluation.recommended_index = PyInt(3)
    /\ fEvaluation.confidence = PyInt(90)
    /\ fOut.recommended_agg_index = 2
    /\ fOut.entries[2].marker
    /\ fOut.entries[2].original_indices = <<2, 3>>
    /\ fOut.entries[2].shown_trust = Percent(900)
    /\ ~fOut.entries[1].marker
\* the value is a number or a string float() reads as one
NumericConfidence(v) == v.type \in {"int", "float"} \/ (v.type = "str" /\ v.text = "85")

\* C19 (as claimed): an entry of the report shows something else than its
\* occurrence-based trust only if it is the recommended entry and the
\* evaluation's confidence is a usable number, and what is shown then is
\* that number as a percentage; the same holds for the 'Recommended Guide'
\* line. A confidence that is not a number is shown nowhere.
C19_ConfidenceOverride ==
    fOut.kind = "report" =>
        /\ \A d \in 1..Len(fOut.entries) :
              LET entry == fOut.entries[d]
              IN /\ (~entry.marker => entry.shown_trust = entry.trust)
                 /\ (entry.shown_trust # entry.trust =>
                        /\ entry.marker
                        /\ fEvaluation.given
                        /\ NumericConfidence(fEvaluation.confidence))
                 /\ entry.shown_trust.kind = "percent"
        /\ \A k \in 1..Len(fOut.recommended_line) :
              fOut.recommended_line[k].trust.kind = "percent"
RECURSIVE SumCounts(_)
SumCounts(entries) ==
    IF entries = <<>> THEN 0 ELSE Head(entries).count + SumCounts(Tail(entries))

\* the places (entry, position) of original_indices that hold index i
PlacesOf(i) ==
    {<<d, k>> \in (1..Len(fOut.entries)) \X (1..Len(fGuides)) :
        /\ k <= Len(fOut.entries[d].original_indices)
        /\ fOut.entries[d].original_indices[k] = i}

\* C20: in the report for a non-empty candidate list the occurrence counts
\* of the entries add up to the number of candidates with non-empty text
\* (which is also the total the trust is computed from), the index of every
\* such candidate is held exactly once, by exactly one entry, and no other
\* index is held.
C20_CountsAndIndices ==
    (fOut.kind = "report" /\ fGuides # <<>>) =>
        /\ SumCounts(fOut.entries) = Cardinality(NonEmpty)
        /\ fOut.total = Cardinality(NonEmpty)
        /\ \A i \in NonEmpty : Cardinality(PlacesOf(i)) = 1
        /\ \A i \in (0..Len(fGuides) + 1) \ NonEmpty : PlacesOf(i) = {}
        /\ \A d \in 1..Len(fOut.entries) :
              fOut.entries[d].count = Len(fOut.entries[d].original_indices)

C20_Witness ==
    /\ fOut.kind = "report"
    /\ fGuides = <<Cand("Go to the castle."), Cand("  "), Cand("go  to the castle.")>>
    /\ Len(fOut.entries) = 1
    /\ fOut.entries[1].count = 2
    /\ fOut.entries[1].original_indices = <<1, 3>>
RECURSIVE SumTrust(_)
SumTrust(entries) ==
    IF entries = <<>> THEN 0 ELSE Head(entries).trust.tenths + SumTrust(Tail(entries))

Distance(a, b) == IF a >= b THEN a - b ELSE b - a

\* C21 (as claimed): for every candidate list the trust percentages of the
\* entries of the report, each with one decimal, add up to 100 give or take
\* one tenth.
C21_TrustSumsTo100 ==
    (fOut.kind = "report" /\ fOut.entries # <<>>) =>
        Distance(SumTrust(fOut.entries), 1000) <= 1

\* C21: for every candidate list with at least one non-empty text the trust
\* percentages of the entries add up to 100 give or take half a tenth per
\* entry; for the at most three candidates call_ai_api returns that is one
\* tenth.
C21_TrustSumWithinRounding ==
    (fOut.kind = "report" /\ fOut.entries # <<>>) =>
        /\ 2 * Distance(SumTrust(fOut.entries), 1000) <= Len(fOut.entries)
        /\ (Len(fGuides) <= attempts_per_model =>
               Distance(SumTrust(fOut.entries), 1000) <= 1)

C21_Witness ==
    /\ fOut.kind = "report"
    /\ fGuides = [i \in 1..6 |-> Cand(HintTexts[i])]
    /\ Len(fOut.entries) = 6
    /\ \A d \in 1..6 : fOut.entries[d].trust = Percent(167)
    /\ SumTrust(fOut.entries) = 1002
\* C22: a second call of _format_guide_output with the same candidate list,
\* provider, evaluation, model name and refined context gives the report
\* the first call gave, whatever order the sets of sources are iterated in
\* during either call.
C22_FormatDeterministic ==
    fAgain.kind # "none" => fAgain = fOut

C22_Witness ==
    /\ fAgain.kind = "report"
    /\ fGuides = <<[text |-> "Go to the castle.", sources |-> <<SourceForum, SourceWiki>>],
                   [text |-> "go  to the castle.", sources |-> <<"", SourceForum>>]>>
    /\ Len(fAgain.entries) = 1
    /\ fAgain.entries[1].sources = <<SourceWiki, SourceForum>>
    /\ fOut.entries[1].sources = <<SourceWiki, SourceForum>>
\* two stripped texts are equal once lower-cased and with every run of
\* white space collapsed to one blank
SameNormalized(a, b) ==
    \/ a = b
    \/ {a, b} = {"Go to the castle.", "go  to the castle."}

\* the entries of the report that hold candidate i
EntriesOf(i) ==
    {d \in 1..Len(fOut.entries) :
        \E k \in 1..Len(fOut.entries[d].original_indices) :
            fOut.entries[d].original_indices[k] = i}

\* C23: in the report two candidates with non-empty text are in the same
\* entry if and only if their stripped texts are equal after lower-casing
\* and collapsing white space (so 'Go to the castle.' and 'go to the castle'
\* are two entries); candidates with empty text are in no entry; the
\* entries are numbered in the order of their first candidates, and every
\* entry shows the stripped text of its first candidate as it was given.
C23_ClusterByNormalizedText ==
    fOut.kind = "report" =>
        /\ \A i \in 1..Len(fGuides) :
              IF i \in NonEmpty THEN Cardinality(EntriesOf(i)) = 1 ELSE EntriesOf(i) = {}
        /\ \A i \in NonEmpty : \A j \in NonEmpty :
              (EntriesOf(i) = EntriesOf(j)) <=>
                  SameNormalized(strip(fGuides[i].text), strip(fGuides[j].text))
        /\ \A d \in 1..Len(fOut.entries) :
              LET first == fOut.entries[d].original_indices[1]
              IN /\ fOut.entries[d].display_index = d
                 /\ \A k \in 1..Len(fOut.entries[d].original_indices) :
                       first <= fOut.entries[d].original_indices[k]
                 /\ fOut.entries[d].text = strip(fGuides[first].text)
                 /\ \A e \in 1..Len(fOut.entries) :
                       d < e => first < fOut.entries[e].original_indices[1]

C23_Witness ==
    /\ fOut.kind = "report"
    /\ fGuides = <<Cand("Go to the castle."), Cand("go to the castle"),
                   Cand("Talk to the elder.")>>
    /\ Len(fOut.entries) = 3
    /\ fOut.entries[1].text = "Go to the castle."
    /\ fOut.entries[2].text = "go to the castle"
    /\ fOut.entries[3].text = "Talk to the elder."
    /\ \A d \in 1..3 : fOut.entries[d].trust = Percent(333)
\* C24: _format_guide_output never divides by zero. The empty list gives the
\* 'no guides' text, every other list without an evaluation a report; a list
\* whose texts are all empty gives a report without entries, so no trust is
\* computed for it, and whenever the report has an entry the total the
\* trust is computed from is at least the count of that entry, which is at
\* least one.
C24_NoDivisionByZero ==
    fOut.kind # "none" =>
        /\ fOut.exc # "ZeroDivisionError"
        /\ (fGuides = <<>> <=> fOut.kind = "no_guides")
        /\ (~fEvaluation.given => fOut.kind \in {"no_guides", "report"})
        /\ ((fOut.kind = "report" /\ NonEmpty = {}) =>
               fOut.entries = <<>> /\ fOut.total = 0)
        /\ \A d \in 1..Len(fOut.entries) :
              /\ fOut.entries[d].count >= 1
              /\ fOut.total >= fOut.entries[d].count
              /\ fOut.entries[d].trust.tenths \in 1..1000

C24_Witness ==
    /\ fOut.kind = "report"
    /\ fGuides = <<Cand(""), Cand("  ")>>
    /\ fOut.entries = <<>>
    /\ fOut.total = 0
\* C28 (as claimed): in the report a candidate whose text is the fallback
\* sentence is not scored like an ordinary answer: when every candidate
\* with a non-empty text is the fallback sentence, no entry is shown with an
\* occurrence-based trust of 100%.
C28_FallbackNotScored ==
    (/\ fOut.kind = "report"
     /\ NonEmpty # {}
     /\ \A i \in NonEmpty : strip(fGuides[i].text) = default_fallback) =>
        \A d \in 1..Len(fOut.entries) : fOut.entries[d].shown_trust # Percent(1000)

\* C29 (as claimed): for every numeric confidence of the evaluation the
\* confidence percentage shown in the report, on the recommended entry and
\* in the 'Recommended Guide' line, is between 0% and 100%.
C29_ConfidenceInRange ==
    (/\ fOut.kind = "report"
     /\ fEvaluation.given
     /\ fEvaluation.confidence.type \in {"int", "float"}) =>
        /\ \A d \in 1..Len(fOut.entries) :
              /\ fOut.entries[d].shown_trust.kind = "percent"
              /\ fOut.entries[d].shown_trust.tenths \in 0..1000
        /\ \A k \in 1..Len(fOut.recommended_line) :
              /\ fOut.recommended_line[k].trust.kind = "percent"
              /\ fOut.recommended_line[k].trust.tenths \in 0..1000
\* C30: the model loop ends at most attempts_per_model transport calls for
\* a model, and a call to a model is due only while fewer than that many
\* have ended and fewer than that many usable candidates were collected
\* from it; HTTP retries inside a call count for nothing. A pause of
\* delay_seconds is taken only by a step that ends a call with a return and
\* is followed by another call to the same model, so that the pauses are as
\* many as the calls that ended while a call is due and one fewer when the
\* model was accepted.
C30_ThreeCallsPerModel ==
    /\ [](/\ modelCalls <= attempts_per_model
          /\ (pc = "generate" =>
                 /\ modelCalls < attempts_per_model
                 /\ Len(model_guides) < attempts_per_model
                 /\ pauses = modelCalls)
          /\ (pc = "evaluate" => pauses = modelCalls - 1))
    /\ [][pc = "generate" =>
             /\ (attempt' > 0 => modelCalls' = modelCalls /\ pauses' = pauses)
             /\ pauses' \in {0, pauses, pauses + 1}
             /\ (pauses' = pauses + 1 =>
                    /\ attempt' = 0
                    /\ callResult'.tag = "return"
                    /\ pc' = "generate"
                    /\ modelIdx' = modelIdx
                    /\ modelCalls' = modelCalls + 1)]_vars

C30_Witness ==
    /\ pc = "evaluate"
    /\ modelCalls = 2
    /\ pauses = 1
    /\ Len(model_guides) = 3
    /\ Len(guides) = 3
\* the most HTTP requests a run can send: one transport call for the
\* refinement, attempts_per_model calls for each model and one call for the
\* evaluation, max_retries requests each (96 for the ten models of line 17)
MaxRequests ==
    max_retries + Len(gemini_models) * attempts_per_model * max_retries + max_retries

\* the most HTTP requests the run can still send from where it is
RequestsLeft ==
    LET per_model == attempts_per_model * max_retries
    IN CASE pc = "start" ->
              IF provider = "Gemini" THEN MaxRequests
              ELSE IF provider \in SupportedProviders THEN 1 ELSE 0
         [] pc = "refine" ->
              (max_retries - attempt) + Len(gemini_models) * per_model + max_retries
         [] pc = "generate" ->
              (max_retries - attempt) + (attempts_per_model - 1 - seqAttempt) * max_retries
              + (Len(gemini_models) - modelIdx) * per_model + max_retries
         [] pc = "evaluate" -> max_retries - attempt
         [] pc \in {"openai", "claude"} -> 1
         [] OTHER -> 0

\* C25: every run of call_ai_api ends, returned or raised, when every HTTP
\* request ends: the number of requests that can still be sent is never
\* above MaxRequests, it is at least one whenever a request is due, and
\* every request lowers it by at least one; so a run for the grounded
\* provider sends at most MaxRequests requests, 3 + 3 x 3 x 10 + 3 = 96 for
\* ten models.
C25_TerminatesWithinBound ==
    /\ [](/\ RequestsLeft \in 0..MaxRequests
          /\ (pc \in {"refine", "generate", "evaluate", "openai", "claude"} =>
                 RequestsLeft >= 1 /\ attempt < max_retries))
    /\ [][IF pc = "start" THEN RequestsLeft' <= RequestsLeft
                          ELSE RequestsLeft' < RequestsLeft]_vars
    /\ <>(pc = "done" \/ pc = "raised")

C25_Witness ==
    /\ pc = "done"
    /\ tried = AllModels
    /\ active_model = gemini_models[Len(gemini_models)]
    /\ modelCalls = attempts_per_model
    /\ callResult.stage = "evaluate"
    /\ callResult.tag = "raise"
    /\ callResult.err.kind = "network"
    /\ RequestsLeft = 0
\* C26: at most one worker is outstanding per window. From the step of
\* _generate_guide that starts a worker until _on_worker_finished has
\* handled its finished signal the guide button stays disabled, whatever
\* games are selected, added, renamed or deleted and whatever the edit mode
\* is, and a worker is started only when none is outstanding.
C26_OneOutstandingWorker ==
    /\ [](/\ outstanding \in {0, 1}
          /\ (outstanding = 1 <=> current_worker.status \in {"running", "finished"})
          /\ (outstanding = 1 => ~guide_button_enabled))
    /\ [][outstanding' > outstanding =>
             /\ outstanding = 0
             /\ current_worker = NoWorker
             /\ guide_button_enabled]_vars

C26_Witness ==
    /\ outstanding = 1
    /\ current_worker.status = "running"
    /\ current_worker.game_title = "Hades"
    /\ "Hades" \notin DOMAIN games
    /\ current_game = "Celeste"
    /\ is_edit_mode
    /\ stripSituation(situation_input) # NoText
    /\ ~guide_button_enabled
\* C27: the status callback carries nothing back into call_ai_api. From the
\* same state and for the same outcome of the request that is due, the step
\* of the run without a callback can be made whenever the step of the run
\* with one was made, and it sends the same request, sleeps the same delays
\* and leaves the same loop state, guides, model, evaluation, refined
\* context and error; only the messages handed to the callback differ. So
\* the two runs agree on every call and on the result for every sequence
\* of responses.
C27_StatusIsDisplayOnly ==
    /\ []((twin.phase = "second" /\ twin.saved # <<View>>) => twin.expect = <<View>>)
    /\ []((twin.phase = "second" /\ twin.saved = <<View>>) => ENABLED TwinStep)
    /\ [](status_callback \/ emitted = {})
    /\ [][twin' = twin => View' # View]_vars

C27_Witness ==
    /\ twin.phase = "second"
    /\ ~status_callback
    /\ twin.saved # <<View>>
    /\ twin.expect = <<View>>
    /\ twin.said # {}
    /\ emitted = {}
    /\ pc = "done"
    /\ provider = "Gemini"
    /\ active_model = gemini_models[2]
    /\ evaluation.shape = "object"

\* a candidate the model loop counts as usable: its text is not empty and is
\* not the fallback sentence
Usable(guide) == strip(guide.text) # NoText /\ guide.text # default_fallback

\* C31: the candidate list a grounded run returns is either 1 to 3 usable
\* candidates, each with a non-empty text other than the fallback sentence,
\* or exactly one candidate whose text is the fallback sentence; the two
\* kinds are never mixed and the list never has more than 3 entries.
C31_UsableOrOneFallback ==
    (provider = "Gemini" /\ pc = "done") =>
        \/ /\ Len(guides) \in 1..3
           /\ \A i \in 1..Len(guides) : Usable(guides[i])
        \/ /\ Len(guides) = 1
           /\ guides[1].text = default_fallback

\* a run returned three usable candidates although its model also answered
\* with the fallback sentence once
C31_Witness ==
    /\ provider = "Gemini"
    /\ pc = "done"
    /\ Len(guides) = 3
    /\ \A i \in 1..3 : Usable(guides[i])
    /\ fallback_guide # <<>>

\* the step sends the request that ends the transport call of the
\* refinement stage
RefineCallEnds == pc = "refine" /\ attempt' = 0

\* the first text of a response body that is not blank, stripped; the empty
\* string when there is none
FirstNonEmpty(body) ==
    IF \A i \in 1..Len(body) : strip(body[i]) = NoText THEN NoText
    ELSE LET i == CHOOSE k \in 1..Len(body) :
                      /\ strip(body[k]) # NoText
                      /\ \A j \in 1..(k - 1) : strip(body[j]) = NoText
         IN strip(body[i])

\* C32: context refinement makes exactly one transport call per grounded
\* run. The stage is entered from the start of a grounded run only, every
\* request of it goes to the first model of the list, the step that ends its
\* call leaves the stage for good, and no generation request is sent before
\* that step. The call's result is the first non-empty candidate text of the
\* response that ended it when that response has status 200 and a readable
\* body, and the empty string when the call raised or the body held no
\* non-empty text.
C32_RefineOnceFirstModel ==
    [][ /\ (pc = "start" /\ provider = "Gemini") => pc' = "refine"
        /\ pc' = "refine" => (pc \in {"start", "refine"} /\ provider = "Gemini")
        /\ pc = "refine" =>
              /\ lastRequest'.stage = "refine"
              /\ lastRequest'.model = gemini_models[1]
              /\ tried' = {}
              /\ (pc' = "refine") = ~RefineCallEnds
        /\ RefineCallEnds =>
              /\ pc' = "generate"
              /\ callResult'.stage = "refine"
              /\ callResult'.model = gemini_models[1]
              /\ refined_context' =
                    IF lastRequest'.kind = "http" /\ lastRequest'.status = 200
                    THEN FirstNonEmpty(lastRequest'.body)
                    ELSE NoText
        /\ pc # "refine" => (lastRequest'.stage # "refine" /\ refined_context' = refined_context)
      ]_vars

\* the refinement call got a body whose first text is blank and whose
\* second is not, and the run went on to the model loop
C32_Witness ==
    /\ pc = "generate"
    /\ callResult.stage = "refine"
    /\ lastRequest.stage = "refine"
    /\ lastRequest.body = <<"  ", " Talk to the elder. ">>
    /\ refined_context = "Talk to the elder."
    /\ tried = {}

\* the step sends the request that ends a generation call of the model loop
\* by an exception
GenerateCallRaises == pc = "generate" /\ attempt' = 0 /\ callResult'.tag = "raise"

\* C33: when a transport call the sequencer makes to a model raises, the
\* exception becomes the last error, what the model had collected is
\* discarded, and the loop goes on with the next model of the list or, after
\* the last model, ends; generation requests go to the current model only
\* and the loop never goes back to an earlier model, so the model gets no
\* further call. The last error changes on no other step. Hence the
\* candidates of an accepted model all come from that model and the last
\* error is never an exception of the accepted model.
C33_RaiseAbandonsModel ==
    /\ [][ /\ pc = "generate" =>
                 /\ lastRequest'.stage = "generate"
                 /\ lastRequest'.model = gemini_models[modelIdx]
                 /\ modelIdx' >= modelIdx
           /\ GenerateCallRaises =>
                 /\ callResult'.model = gemini_models[modelIdx]
                 /\ last_error' = callResult'.err
                 /\ last_error'.model = gemini_models[modelIdx]
                 /\ model_guides' = <<>>
                 /\ fallback_guide' = <<>>
                 /\ guides' = <<>>
                 /\ active_model' = 0
                 /\ IF modelIdx < Len(gemini_models)
                    THEN pc' = "generate" /\ modelIdx' = modelIdx + 1
                    ELSE pc' = "raised" /\ error' = last_error'
           /\ ~GenerateCallRaises => last_error' = last_error
         ]_vars
    /\ [](provider = "Gemini" /\ pc \in {"evaluate", "done"} =>
             /\ active_model = gemini_models[modelIdx]
             /\ \A i \in 1..Len(guides) : guides[i].model = active_model
             /\ last_error.model # active_model
             /\ callResult.stage = "generate" => callResult.tag = "return")

\* a later call to the first model raised after an earlier call to it had
\* returned candidates; the loop is at the second model, which has not been
\* sent a request yet, and nothing of the first model is left
C33_Witness ==
    /\ provider = "Gemini"
    /\ pc = "generate"
    /\ modelIdx = 2
    /\ tried = {gemini_models[1]}
    /\ everProduced
    /\ callResult.tag = "raise"
    /\ last_error.model = gemini_models[1]
    /\ model_guides = <<>>
    /\ fallback_guide = <<>>

\* the step sends the request that ends a generation call of the model loop
\* by a return
GenerateCallReturns == pc = "generate" /\ attempt' = 0 /\ callResult'.tag = "return"

\* C34: the model loop passes the fallback sentence to every generation
\* call, so a generation call that returns has got at least one candidate;
\* after such a call the loop either stays with the model for another call
\* or accepts the model with a non-empty candidate list; the message that a
\* model returned no guidance is never handed to the status callback; and
\* the loop changes the model only on a step whose call raised.
C34_ReturningModelAccepted ==
    [][ /\ GenerateCallReturns =>
              /\ callResult'.got # "nothing"
              /\ everProduced'
              /\ \/ /\ pc' = "generate"
                    /\ modelIdx' = modelIdx
                    /\ modelCalls' < attempts_per_model
                    /\ model_guides' # <<>> \/ fallback_guide' # <<>>
                 \/ /\ pc' = "evaluate"
                    /\ active_model' = gemini_models[modelIdx]
                    /\ guides' # <<>>
        /\ "no_guidance" \notin emitted'
        /\ (pc = "generate" /\ (modelIdx' # modelIdx \/ pc' = "raised")) =>
              (attempt' = 0 /\ callResult'.tag = "raise")
      ]_vars

\* the three calls to the first model were all answered with status 200 and
\* no usable text, and the model was accepted with the fallback sentence
C34_Witness ==
    /\ provider = "Gemini"
    /\ status_callback
    /\ pc = "evaluate"
    /\ modelIdx = 1
    /\ modelCalls = attempts_per_model
    /\ tried = {gemini_models[1]}
    /\ last_error = NoErr
    /\ model_guides = <<[text |-> default_fallback, model |-> gemini_models[1]]>>
    /\ "succeeded" \in emitted

\* the step is _on_worker_finished for a run that returned candidates
ReportHandled ==
    /\ current_worker.status = "finished"
    /\ current_worker.result = "report"
    /\ current_worker' = NoWorker

\* C35 (as claimed): when the handler of finished writes the report of a run
\* started for game G, the guide field of G holds the report afterwards if G
\* still exists, under the title it has by then, and the guide field of no
\* other game changes.
C35_ReportStoredInItsGame ==
    [][ReportHandled =>
          LET G == game_now
          IN /\ G # NoGame => games'[G].guide = ReportText
             /\ \A t \in DOMAIN games' \ {G} : games'[t].guide = games[t].guide
      ]_vars

\* C36: a run of the worker emits finished exactly once: never more than one
\* record, and one in the end. The record is the dict call_ai_api returned
\* when it returned, and a record with an error field holding the text of
\* the exception when it raised. A step that hands a message to the status
\* callback is made while finished has not been emitted, and once finished
\* is emitted the run makes no further step.
C36_FinishedOnceAfterStatus ==
    /\ [](Len(finished) <= 1)
    /\ [](finished # <<>> =>
             /\ pc \in {"done", "raised"}
             /\ pc = "done" =>
                   /\ finished[1].kind = "result"
                   /\ finished[1].result.guides = guides
                   /\ finished[1].result.evaluation = evaluation
                   /\ finished[1].result.provider = provider
                   /\ finished[1].result.refined_context = refined_context
                   /\ finished[1].result.model_used =
                         (IF provider = "Gemini" THEN active_model ELSE 0)
             /\ pc = "raised" =>
                   /\ finished[1].kind = "error"
                   /\ finished[1].error = str_exc(error))
    /\ [][finished = <<>> /\ (emitted' # {} => finished' = <<>>)]_vars
    /\ <>(Len(finished) = 1)

\* the worker emitted the error record of a grounded run whose models all
\* raised
C36_Witness ==
    /\ provider = "Gemini"
    /\ pc = "raised"
    /\ tried = AllModels
    /\ Len(finished) = 1
    /\ finished[1].kind = "error"
    /\ finished[1].error = "API returned status ..."

\* C37 (as claimed): whatever text the evaluator backend returns,
\* _evaluate_gemini_guides hands back an empty evaluation or a record: the
\* empty dict, the record built for a text that is not JSON, or the JSON
\* object it parsed; never a value that is not a dict.
C37_EvaluationIsRecord ==
    evOut.kind # "none" =>
        \/ evOut.kind \in {"empty", "degraded"}
        \/ evOut.kind = "parsed" /\ evOut.value \in {"empty_object", "object"}

\* ------------------------------------------------- DataManager, the API keys
\* keys the user types into the key field
KeyTexts == {"", "gemini-key", "openai-key"}

\* encrypt_api_key (data.py lines 40-45): the empty key stays the empty
\* string, any other key becomes a Fernet token
encrypt_api_key(api_key) ==
    IF api_key = "" THEN EmptyField ELSE [kind |-> "token", plain |-> api_key]

\* decrypt_api_key (data.py lines 47-57): a missing or empty value gives the
\* empty string, a token the key it was made from
decrypt_api_key(encrypted_key) ==
    IF encrypted_key.kind = "token" THEN encrypted_key.plain ELSE ""

\* 'not encrypted_key' for None and for the empty string
falsy_key(encrypted_key) == encrypted_key.kind \in {"missing", "empty"}

InitKeys ==
    /\ OrchIdle
    /\ TransportIdle
    /\ AppIdle
    /\ EvalIdle
    /\ FormatIdle
    /\ KeysIdle

\* save_api_key (data.py lines 106-113)
save_api_key(provider_, api_key) ==
    /\ LET encrypted_key == encrypt_api_key(api_key)
       IN settings_file' = [settings_file EXCEPT ![key_field(provider_)] = encrypted_key,
                                                 !["api_key"] = encrypted_key]
    /\ saved' = [saved EXCEPT ![provider_] = api_key]
    /\ loaded' = NotLoaded
    /\ UNCHANGED <<orchVars, twin, finished, transportVars, appVars, evalVars, formatVars>>

\* load_api_key (data.py lines 97-104)
load_api_key(provider_) ==
    /\ LET own == settings_file[key_field(provider_)]
           encrypted_key == IF falsy_key(own) THEN settings_file["api_key"] ELSE own
       IN loaded' = [provider |-> provider_, key |-> decrypt_api_key(encrypted_key)]
    /\ UNCHANGED <<settings_file, saved>>
    /\ UNCHANGED <<orchVars, twin, finished, transportVars, appVars, evalVars, formatVars>>

NextKeys ==
    \/ \E provider_ \in KeyProviders, api_key \in KeyTexts : save_api_key(provider_, api_key)
    \/ \E provider_ \in KeyProviders : load_api_key(provider_)

SpecKeys == InitKeys /\ [][NextKeys]_vars

\* C38 (as claimed): after any sequence of save_api_key calls a call
\* load_api_key(p) returns the key most recently saved for provider p, the
\* empty string if none was saved for p.
C38_KeysIsolatedPerProvider ==
    loaded.provider # "none" => loaded.key = saved[loaded.provider]
====
